---------------------------- MODULE Spec2Model ----------------------------
(***************************************************************************)
(* human-guard (guard/core.py): the schedule evaluator, the session        *)
(* ledger, the state projector and the --check flow, as a state machine.   *)
(*                                                                         *)
(* Python values are tagged: PyStr (a sequence of characters), PyInt,      *)
(* PyDict (a function from keys to values), PyList, None.  A character is  *)
(* a one-element string of the alphabet; a word that the code never looks  *)
(* into (a key, a name) is written as one letter of that alphabet.         *)
(* A naive datetime is [s, us]: the seconds since 1970-01-01T00:00:00 and  *)
(* the microseconds.                                                       *)
(*                                                                         *)
(* A configuration that loads conforms to the human.md schema: operator,   *)
(* schedule, sessions and messages are mappings when present, the times    *)
(* are "HH:MM" strings and the session limits are integers.                *)
(***************************************************************************)
EXTENDS Integers, Sequences, FiniteSets, TLC

VARIABLES
    arg,           \* the arguments of the call under evaluation
    res,           \* its result, NoResult before it returns
    config_files,  \* the files at the paths of the config search path
    state_file,    \* session-state.json
    log_file,      \* session-log.json
    markers,       \* the notification markers in GUARD_DIR
    sentinels,     \* the sentinel files in GUARD_DIR, by kind and session id
    stderr,        \* the lines printed to sys.stderr
    writes,        \* the write_text calls made, by file
    clock          \* the UTC instant the system clock reads

vars == <<arg, res, config_files, state_file, log_file, markers, sentinels,
         stderr, writes, clock>>

---------------------------------------------------------------------------
(* Python values *)

None == [t |-> "None"]
PyStr(s) == [t |-> "str", v |-> s]
PyInt(n) == [t |-> "int", v |-> n]
PyDict(f) == [t |-> "dict", v |-> f]
PyList(l) == [t |-> "list", v |-> l]

EmptyDict == PyDict(<<>>)
EmptyList == PyList(<<>>)

\* d.get(k, default), k a one-word key
\* x.get(...) succeeds on a dict only: any other value has no attribute get
IsMapping(x) == x.t = "dict"

\* the AttributeError such a call raises, as the result of the function
\* that lets it through
AttributeError == [t |-> "AttributeError"]

\* the TypeError of iterating or indexing a value that allows neither, and
\* the KeyError of d[k] without the key k
TypeError == [t |-> "TypeError"]
KeyError == [t |-> "KeyError"]
IsException(x) == x \in {AttributeError, TypeError, KeyError}

Get(d, k, default) == IF <<k>> \in DOMAIN d.v THEN d.v[<<k>>] ELSE default

\* d[k]
Item(d, k) == d.v[<<k>>]

\* bool(x)
Truthy(x) ==
    CASE x.t = "None" -> FALSE
      [] x.t = "int" -> x.v # 0
      [] x.t = "bool" -> x.v
      [] x.t = "str" -> Len(x.v) > 0
      [] x.t = "list" -> Len(x.v) > 0
      [] x.t = "dict" -> DOMAIN x.v # {}

\* x in l, l a list
InList(x, l) == \E i \in 1..Len(l.v) : l.v[i] = x

---------------------------------------------------------------------------
(* Strings *)

Digits == <<"0", "1", "2", "3", "4", "5", "6", "7", "8", "9">>

DigitValue(c) == CHOOSE d \in 0..9 : Digits[d + 1] = c

\* int(s) for a string of decimal digits
RECURSIVE int(_)
int(s) == IF Len(s) = 1 THEN DigitValue(s[1])
          ELSE int(SubSeq(s, 1, Len(s) - 1)) * 10 + DigitValue(s[Len(s)])

\* s.split(sep): the pieces of s between the occurrences of sep
RECURSIVE split(_, _)
split(s, sep) ==
    IF \A i \in 1..Len(s) : s[i] # sep THEN <<s>>
    ELSE LET i == CHOOSE j \in 1..Len(s) :
                      s[j] = sep /\ \A k \in 1..(j - 1) : s[k] # sep
         IN <<SubSeq(s, 1, i - 1)>> \o split(SubSeq(s, i + 1, Len(s)), sep)

---------------------------------------------------------------------------
(* Inline YAML parser.  A text is a sequence of characters; a line is     *)
(* <<indent, stripped>>.  A call that raises yields Raise.                 *)

Raise == [raise |-> TRUE]

IsSpace(c) == c \in {" ", "\t", "\n", "\r"}

RECURSIVE lstrip(_)
lstrip(s) == IF Len(s) > 0 /\ IsSpace(s[1]) THEN lstrip(Tail(s)) ELSE s

RECURSIVE rstrip(_)
rstrip(s) ==
    IF Len(s) > 0 /\ IsSpace(s[Len(s)]) THEN rstrip(SubSeq(s, 1, Len(s) - 1)) ELSE s

strip(s) == lstrip(rstrip(s))

\* s.startswith(p)
startswith(s, p) == Len(s) >= Len(p) /\ SubSeq(s, 1, Len(p)) = p

\* s.index(c), c in s
index(s, c) == CHOOSE i \in 1..Len(s) : s[i] = c /\ \A k \in 1..(i - 1) : s[k] # c

Contains(s, c) == \E i \in 1..Len(s) : s[i] = c

IsDigit(c) == \E d \in 1..10 : Digits[d] = c

\* int(value) does not raise: an optional sign, then decimal digits with
\* single underscores allowed between them
IsIntText(v) ==
    LET body == IF Len(v) > 0 /\ v[1] \in {"+", "-"} THEN Tail(v) ELSE v
    IN /\ Len(body) > 0
       /\ IsDigit(body[1]) /\ IsDigit(body[Len(body)])
       /\ \A i \in 1..Len(body) : IsDigit(body[i]) \/ body[i] = "_"
       /\ \A i \in 1..(Len(body) - 1) : ~(body[i] = "_" /\ body[i + 1] = "_")

IntOfText(v) ==
    LET body == IF v[1] \in {"+", "-"} THEN Tail(v) ELSE v
        digits == SelectSeq(body, IsDigit)
    IN IF v[1] = "-" THEN 0 - int(digits) ELSE int(digits)

\* lines 64-75, value being stripped
ScalarOf(value) ==
    IF Len(value) = 0 THEN PyStr(<<>>)
    ELSE IF \/ value[1] = "\"" /\ value[Len(value)] = "\""
            \/ value[1] = "'" /\ value[Len(value)] = "'"
    THEN PyStr(SubSeq(value, 2, Len(value) - 1))
    ELSE IF IsIntText(value) THEN PyInt(IntOfText(value))
    ELSE PyStr(value)

_parse_scalar(value) == ScalarOf(strip(value))

\* the scan of _strip_inline_comment from position i on, in_quote being
\* the open quote character or "" outside quotes
RECURSIVE StripCommentScan(_, _, _)
StripCommentScan(value, i, in_quote) ==
    IF i > Len(value) THEN value
    ELSE LET ch == value[i]
         IN IF ch \in {"\"", "'"}
            THEN StripCommentScan(value, i + 1,
                     IF in_quote = ch THEN ""
                     ELSE IF in_quote = "" THEN ch ELSE in_quote)
            ELSE IF ch = "#" /\ in_quote = "" /\ i > 1 /\ value[i - 1] \in {" ", "\t"}
            THEN rstrip(SubSeq(value, 1, i - 1))
            ELSE StripCommentScan(value, i + 1, in_quote)

_strip_inline_comment(value) == StripCommentScan(value, 1, "")

\* what the character at position i becomes under
\* text.replace('\r\n', '\n').replace('\r', '\n').replace('\t', '  ')
NormalizeAt(text, i) ==
    IF text[i] = "\r" /\ i < Len(text) /\ text[i + 1] = "\n" THEN <<>>
    ELSE IF text[i] = "\r" THEN <<"\n">>
    ELSE IF text[i] = "\t" THEN <<" ", " ">>
    ELSE <<text[i]>>

RECURSIVE NormalizeRange(_, _, _)
NormalizeRange(text, lo, hi) ==
    IF lo > hi THEN <<>>
    ELSE IF lo = hi THEN NormalizeAt(text, lo)
    ELSE NormalizeRange(text, lo, (lo + hi) \div 2)
         \o NormalizeRange(text, ((lo + hi) \div 2) + 1, hi)

Normalize(text) == NormalizeRange(text, 1, Len(text))

\* the <<indent, stripped>> of the lines that are neither empty nor comments
RECURSIVE KeepLines(_)
KeepLines(lines) ==
    IF Len(lines) = 0 THEN <<>>
    ELSE LET Keep(line, stripped) ==
                 IF Len(stripped) = 0 \/ stripped[1] = "#"
                 THEN KeepLines(Tail(lines))
                 ELSE <<<<Len(line) - Len(stripped), stripped>>>>
                      \o KeepLines(Tail(lines))
         IN Keep(lines[1], lstrip(lines[1]))

_preprocess_lines(text) == KeepLines(split(Normalize(text), "\n"))

Parsed(val, idx) == [val |-> val, idx |-> idx]

\* sep.join(parts)
RECURSIVE join(_, _)
join(sep, parts) ==
    IF Len(parts) = 0 THEN <<>>
    ELSE IF Len(parts) = 1 THEN parts[1]
    ELSE parts[1] \o sep \o join(sep, Tail(parts))

\* the while loop of _parse_folded, parts being the lines collected so far
RECURSIVE FoldedLoop(_, _, _, _)
FoldedLoop(lines, idx, min_indent, parts) ==
    IF idx > Len(lines) \/ lines[idx][1] < min_indent
    THEN Parsed(PyStr(join(<<" ">>, parts)), idx)
    ELSE FoldedLoop(lines, idx + 1, min_indent, Append(parts, lines[idx][2]))

_parse_folded(lines, idx, min_indent) == FoldedLoop(lines, idx, min_indent, <<>>)

\* result[key] = value
Store(result, key, value) == PyDict((key :> value) @@ result.v)

\* k, _, v = content.partition(':')
PartitionKey(content) == SubSeq(content, 1, index(content, ":") - 1)
PartitionValue(content) == SubSeq(content, index(content, ":") + 1, Len(content))

\* the text after the colon of a "key: value" line, stripped, without its
\* inline comment
RestOf(stripped) ==
    LET Stripped(rest) == IF Len(rest) > 0 THEN _strip_inline_comment(rest) ELSE rest
    IN Stripped(strip(SubSeq(stripped, index(stripped, ":") + 1, Len(stripped))))

RECURSIVE _parse_mapping_loop(_, _, _, _)
RECURSIVE _parse_sequence_loop(_, _, _, _)
RECURSIVE ObjectKeysLoop(_, _, _, _)

\* a key without a value, the lines from idx on being the ones after it:
\* the nested sequence or mapping, or None (lines 164-173 and 214-223)
NestedValue(lines, idx, indent) ==
    IF idx <= Len(lines) /\ lines[idx][1] > indent
    THEN IF startswith(lines[idx][2], <<"-", " ">>)
         THEN _parse_sequence_loop(lines, idx, lines[idx][1], EmptyList)
         ELSE _parse_mapping_loop(lines, idx, lines[idx][1], EmptyDict)
    ELSE Parsed(None, idx)

\* the while loop of _parse_mapping, result being the dict built so far
_parse_mapping_loop(lines, idx, min_indent, result) ==
    IF idx > Len(lines) THEN Parsed(result, idx)
    ELSE LET indent == lines[idx][1]
             stripped == lines[idx][2]
         IN IF indent < min_indent THEN Parsed(result, idx)
            ELSE IF ~Contains(stripped, ":") \/ startswith(stripped, <<"-", " ">>)
            THEN Parsed(result, idx)
            ELSE LET ValueOf(rest) ==
                         IF rest = <<">">>
                         THEN _parse_folded(lines, idx + 1, indent + 1)
                         ELSE IF Len(rest) > 0
                         THEN Parsed(_parse_scalar(rest), idx + 1)
                         ELSE NestedValue(lines, idx + 1, indent)
                     Stored(key, value) ==
                         IF Len(key) = 0 THEN Raise
                         ELSE IF value = Raise THEN Raise
                         ELSE _parse_mapping_loop(lines, value.idx, min_indent,
                                                  Store(result, key, value.val))
                 IN Stored(strip(SubSeq(stripped, 1, index(stripped, ":") - 1)),
                           ValueOf(RestOf(stripped)))

_parse_mapping(lines, idx, min_indent) ==
    _parse_mapping_loop(lines, idx, min_indent, EmptyDict)

\* lines 196-223: the further keys of the object item obj
ObjectKeysLoop(lines, idx, item_indent, obj) ==
    IF idx > Len(lines) THEN Parsed(obj, idx)
    ELSE LET ni == lines[idx][1]
             ns == lines[idx][2]
         IN IF ni < item_indent \/ startswith(ns, <<"-", " ">>)
            THEN Parsed(obj, idx)
            ELSE IF ~Contains(ns, ":") THEN Parsed(obj, idx)
            ELSE LET ValueOf(ov) ==
                         IF ov = <<">">>
                         THEN _parse_folded(lines, idx + 1, ni + 1)
                         ELSE IF Len(ov) > 0
                         THEN Parsed(_parse_scalar(ov), idx + 1)
                         ELSE NestedValue(lines, idx + 1, ni)
                     Stored(ok, value) ==
                         IF value = Raise THEN Raise
                         ELSE ObjectKeysLoop(lines, value.idx, item_indent,
                                             Store(obj, ok, value.val))
                 IN Stored(strip(SubSeq(ns, 1, index(ns, ":") - 1)),
                           ValueOf(RestOf(ns)))

\* the while loop of _parse_sequence, result being the list built so far
_parse_sequence_loop(lines, idx, min_indent, result) ==
    IF idx > Len(lines) THEN Parsed(result, idx)
    ELSE LET indent == lines[idx][1]
             stripped == lines[idx][2]
         IN IF indent < min_indent THEN Parsed(result, idx)
            ELSE IF ~startswith(stripped, <<"-", " ">>) THEN Parsed(result, idx)
            ELSE LET item_indent == indent + 2
                     Object(k, v) == Store(EmptyDict, strip(k), _parse_scalar(v))
                     Appended(item) ==
                         IF item = Raise THEN Raise
                         ELSE _parse_sequence_loop(lines, item.idx, min_indent,
                                  PyList(Append(result.v, item.val)))
                     ItemOf(content) ==
                         IF Contains(content, ":") /\ content[1] \notin {"\"", "'"}
                         THEN Appended(ObjectKeysLoop(lines, idx + 1, item_indent,
                                  Object(PartitionKey(content),
                                         _strip_inline_comment(
                                             strip(PartitionValue(content))))))
                         ELSE _parse_sequence_loop(lines, idx + 1, min_indent,
                                  PyList(Append(result.v, _parse_scalar(content))))
                 IN ItemOf(strip(SubSeq(stripped, 3, Len(stripped))))

_parse_sequence(lines, idx, min_indent) ==
    _parse_sequence_loop(lines, idx, min_indent, EmptyList)

_do_parse_yaml(text) ==
    LET Result(r) == IF r = Raise THEN Raise ELSE r.val
        Mapping(lines) ==
            IF Len(lines) = 0 THEN EmptyDict
            ELSE Result(_parse_mapping(lines, 1, 0))
    IN Mapping(_preprocess_lines(text))

parse_yaml(text) ==
    LET Caught(result) == IF result = Raise THEN EmptyDict ELSE result
    IN IF Len(strip(text)) = 0 THEN EmptyDict
       ELSE Caught(_do_parse_yaml(text))

---------------------------------------------------------------------------
(* Schedule checking *)

\* datetime.time(hour, minute)
time(h, m) == [hour |-> h, minute |-> m, second |-> 0, microsecond |-> 0]

_parse_time(s) ==
    LET hm == split(s.v, ":")
    IN time(int(hm[1]), int(hm[2]))

_time_to_minutes(t) == t.hour * 60 + t.minute

\* now.time()
TimeOf(now) ==
    [hour |-> (now.s % 86400) \div 3600, minute |-> (now.s % 3600) \div 60,
     second |-> now.s % 60, microsecond |-> now.us]

DayNames == <<"Monday", "Tuesday", "Wednesday", "Thursday", "Friday",
              "Saturday", "Sunday">>

\* now.strftime("%A"); 1970-01-01 was a Thursday
DayName(now) == PyStr(<<DayNames[(((now.s \div 86400) + 3) % 7) + 1]>>)

Verdict(status, reason, period_name) ==
    [status |-> status, reason |-> reason, period_name |-> period_name]

\* mutant: the end minute of a blocked period is still blocked
InBlocked_EndIncluded(bp_start, bp_end, now_minutes) ==
    IF bp_start < bp_end
    THEN bp_start <= now_minutes /\ now_minutes <= bp_end
    ELSE now_minutes >= bp_start \/ now_minutes <= bp_end

\* lines 323-327: whether now_minutes lies in the blocked period
InBlocked(bp_start, bp_end, now_minutes) ==
    IF bp_start < bp_end
    THEN bp_start <= now_minutes /\ now_minutes < bp_end
    ELSE now_minutes >= bp_start \/ now_minutes < bp_end

\* mutant: the last listed period that contains now_minutes wins
RECURSIVE BlockedPeriodLoop_LastMatch(_, _, _)
BlockedPeriodLoop_LastMatch(blocked_periods, i, now_minutes) ==
    IF i > Len(blocked_periods.v) THEN None
    ELSE LET bp == blocked_periods.v[i]
             bp_start == _time_to_minutes(_parse_time(Item(bp, "start")))
             bp_end == _time_to_minutes(_parse_time(Item(bp, "end")))
             later == BlockedPeriodLoop_LastMatch(blocked_periods, i + 1, now_minutes)
         IN IF later # None THEN later
            ELSE IF IF bp_start < bp_end
                    THEN bp_start <= now_minutes /\ now_minutes < bp_end
                    ELSE now_minutes >= bp_start \/ now_minutes < bp_end
            THEN Verdict("blocked", "blocked_period",
                         Get(bp, "name", PyStr(<<"unknown">>)))
            ELSE None

\* the loop over blocked_periods, from the i-th period on: the verdict of
\* the first period that contains now_minutes, None when there is none
RECURSIVE BlockedPeriodLoop(_, _, _)
BlockedPeriodLoop(blocked_periods, i, now_minutes) ==
    IF i > Len(blocked_periods.v) THEN None
    ELSE LET bp == blocked_periods.v[i]
             bp_start == _time_to_minutes(_parse_time(Item(bp, "start")))
             bp_end == _time_to_minutes(_parse_time(Item(bp, "end")))
         IN IF InBlocked(bp_start, bp_end, now_minutes)
            THEN Verdict("blocked", "blocked_period",
                         Get(bp, "name", PyStr(<<"unknown">>)))
            ELSE BlockedPeriodLoop(blocked_periods, i + 1, now_minutes)

\* lines 304-306: end=00:00 means end of day
EndOfAllowed(end_minutes) == IF end_minutes = 0 THEN 24 * 60 ELSE end_minutes

\* mutant: a window that ends before it starts does not wrap midnight
InAllowed_NoWrap(start_minutes, end_minutes, now_minutes) ==
    start_minutes <= now_minutes /\ now_minutes < end_minutes

\* lines 308-313
InAllowed(start_minutes, end_minutes, now_minutes) ==
    IF start_minutes < end_minutes
    THEN start_minutes <= now_minutes /\ now_minutes < end_minutes
    ELSE now_minutes >= start_minutes \/ now_minutes < end_minutes

\* lines 338-343
InWindDown(wind_down, now_minutes, end_minutes) ==
    LET wd_start == _time_to_minutes(_parse_time(Item(wind_down, "start")))
    IN IF wd_start < end_minutes
       THEN wd_start <= now_minutes /\ now_minutes < end_minutes
       ELSE now_minutes >= wd_start \/ now_minutes < end_minutes

\* line 291: now.time().replace(second=0, microsecond=0)
NowTime(now) == [TimeOf(now) EXCEPT !.second = 0, !.microsecond = 0]

\* mutant: the allowed hours are checked before the blocked days
CheckOrder_HoursFirst(on_blocked_day, in_allowed, in_period, in_wind_down) ==
    IF ~in_allowed
    THEN Verdict("blocked", "outside_hours", None)
    ELSE IF on_blocked_day
    THEN Verdict("blocked", "blocked_day", None)
    ELSE IF in_period # None
    THEN in_period
    ELSE IF in_wind_down
    THEN Verdict("wind_down", "None", None)
    ELSE Verdict("ok", "None", None)

\* the order of the checks and their early returns: on_blocked_day,
\* in_allowed and in_wind_down are the tests of lines 298-300, 308-313 and
\* 337-343, in_period the verdict of the loop of lines 320-333
CheckOrder(on_blocked_day, in_allowed, in_period, in_wind_down) ==
    IF on_blocked_day
    THEN Verdict("blocked", "blocked_day", None)
    ELSE IF ~in_allowed
    THEN Verdict("blocked", "outside_hours", None)
    ELSE IF in_period # None
    THEN in_period
    ELSE IF in_wind_down
    THEN Verdict("wind_down", "None", None)
    ELSE Verdict("ok", "None", None)

check_schedule(config, now) ==
    LET schedule == Get(config, "schedule", EmptyDict)
        allowed == Get(schedule, "allowed_hours", EmptyDict)
        start == _parse_time(Get(allowed, "start", PyStr(<<"0", "0", ":", "0", "0">>)))
        end == _parse_time(Get(allowed, "end", PyStr(<<"2", "3", ":", "5", "9">>)))
        now_minutes == _time_to_minutes(NowTime(now))
        start_minutes == _time_to_minutes(start)
        end_minutes == EndOfAllowed(_time_to_minutes(end))
        blocked_days == Get(schedule, "blocked_days", EmptyList)
        blocked_periods == Get(schedule, "blocked_periods", EmptyList)
        wind_down == Get(schedule, "wind_down", None)
    IN \* lines 287-289: schedule.get and allowed.get
       IF ~IsMapping(schedule) THEN AttributeError
       ELSE IF ~IsMapping(allowed) THEN AttributeError
       ELSE CheckOrder(Truthy(blocked_days) /\ InList(DayName(now), blocked_days),
                       InAllowed(start_minutes, end_minutes, now_minutes),
                       BlockedPeriodLoop(blocked_periods, 1, now_minutes),
                       Truthy(wind_down)
                           /\ InWindDown(wind_down, now_minutes, end_minutes))

---------------------------------------------------------------------------
(* Datetimes.  A timedelta is [s, us] with 0 <= us < 10^6, its value being *)
(* s + us / 10^6 seconds.  The ISO-8601 text of a datetime is a string     *)
(* that carries the datetime and, when it is aware, its UTC offset.        *)

PyBool(b) == [t |-> "bool", v |-> b]

\* a - b, two naive datetimes
TimeDelta(a, b) ==
    IF a.us >= b.us THEN [s |-> a.s - b.s, us |-> a.us - b.us]
    ELSE [s |-> a.s - b.s - 1, us |-> a.us - b.us + 1000000]

TdAdd(a, b) ==
    IF a.us + b.us < 1000000 THEN [s |-> a.s + b.s, us |-> a.us + b.us]
    ELSE [s |-> a.s + b.s + 1, us |-> a.us + b.us - 1000000]

\* td >= n seconds, td < n seconds, td > n seconds
TdAtLeast(td, n) == td.s >= n
TdBelow(td, n) == td.s < n
TdOver(td, n) == td.s > n \/ (td.s = n /\ td.us > 0)

\* dt.isoformat(): off is the UTC offset of an aware dt, in seconds
IsoFormat(dt, aware, off) == [t |-> "str", iso |-> dt, aware |-> aware, off |-> off]

IsIso(x) == x.t = "str" /\ "iso" \in DOMAIN x

\* datetime.fromisoformat(x) raises unless x is the ISO text of a datetime
FromIsoRaises(x) == ~IsIso(x)

\* datetime.fromisoformat(x).replace(tzinfo=None)
FromIsoNaive(x) == x.iso

\* truth value of a dict entry that may be a timestamp string
Nonempty(x) == IF IsIso(x) THEN TRUE ELSE Truthy(x)

---------------------------------------------------------------------------
(* Session log *)

ORPHAN_THRESHOLD_HOURS == 4

\* a file that does not exist, and a file whose text is the JSON of doc
\* (doc = InvalidJson: a text that json.loads rejects)
Missing == [t |-> "missing"]
JsonFile(doc) == [t |-> "file", json |-> doc]
InvalidJson == [t |-> "invalid"]

_load_log(file) ==
    IF file # Missing /\ file.json # InvalidJson
       /\ file.json.t = "dict" /\ <<"sessions">> \in DOMAIN file.json.v
    THEN file.json
    ELSE PyDict(<<"sessions">> :> EmptyList)

_save_log(data) == JsonFile(data)

\* mutant: the markers of every session are removed
_clean_notification_markers_All(marks, session_id) == {}

\* the markers, pairs <<kind, session id>>, left by
\* GUARD_DIR.glob(f".notified.*.{session_id}") and rmdir
_clean_notification_markers(marks, session_id) ==
    {mk \in marks : mk[2] # session_id}

\* s with s[k] = x
SetItem(s, k, x) == PyDict((<<k>> :> x) @@ s.v)

\* mutant: a record open for 4 hours or more is an orphan
CleanupRecord_AtThreshold(s, now) ==
    IF Item(s, "end_time") # None THEN [rec |-> s, clean |-> FALSE]
    ELSE IF <<"start_time">> \in DOMAIN s.v /\ ~FromIsoRaises(Item(s, "start_time"))
    THEN IF TdAtLeast(TimeDelta(now, FromIsoNaive(Item(s, "start_time"))),
                      ORPHAN_THRESHOLD_HOURS * 3600)
         THEN [rec |-> SetItem(s, "end_time", Item(s, "start_time")),
               clean |-> <<"id">> \in DOMAIN s.v]
         ELSE [rec |-> s, clean |-> FALSE]
    ELSE [rec |-> SetItem(s, "end_time",
                          IF Nonempty(Get(s, "start_time", None))
                          THEN Item(s, "start_time")
                          ELSE IsoFormat(now, FALSE, 0)),
          clean |-> Nonempty(Get(s, "id", None))]

\* mutant: a record whose start_time does not parse is closed at now
CleanupRecord_NowFallback(s, now) ==
    IF Item(s, "end_time") # None THEN [rec |-> s, clean |-> FALSE]
    ELSE IF <<"start_time">> \in DOMAIN s.v /\ ~FromIsoRaises(Item(s, "start_time"))
    THEN IF TdOver(TimeDelta(now, FromIsoNaive(Item(s, "start_time"))),
                   ORPHAN_THRESHOLD_HOURS * 3600)
         THEN [rec |-> SetItem(s, "end_time", Item(s, "start_time")),
               clean |-> <<"id">> \in DOMAIN s.v]
         ELSE [rec |-> s, clean |-> FALSE]
    ELSE [rec |-> SetItem(s, "end_time", IsoFormat(now, FALSE, 0)),
          clean |-> Nonempty(Get(s, "id", None))]

\* one pass of the loop of cleanup_orphan_sessions over the record s:
\* the record after it and whether its markers are cleaned
CleanupRecord(s, now) ==
    IF Item(s, "end_time") # None THEN [rec |-> s, clean |-> FALSE]
    ELSE IF <<"start_time">> \in DOMAIN s.v /\ ~FromIsoRaises(Item(s, "start_time"))
    THEN IF TdOver(TimeDelta(now, FromIsoNaive(Item(s, "start_time"))),
                   ORPHAN_THRESHOLD_HOURS * 3600)
         \* s["id"] of line 445 raises without the key, after end_time is
         \* set, and the handler of line 446 sets it again
         THEN [rec |-> SetItem(s, "end_time", Item(s, "start_time")),
               clean |-> <<"id">> \in DOMAIN s.v]
         ELSE [rec |-> s, clean |-> FALSE]
    ELSE [rec |-> SetItem(s, "end_time",
                          IF Nonempty(Get(s, "start_time", None))
                          THEN Item(s, "start_time")
                          ELSE IsoFormat(now, FALSE, 0)),
          clean |-> Nonempty(Get(s, "id", None))]

\* s["end_time"] of line 436 raises: s is no mapping (TypeError) or has
\* no such key (KeyError); None when it does not raise
EndTimeRaises(s) ==
    IF s.t # "dict" THEN TypeError
    ELSE IF <<"end_time">> \notin DOMAIN s.v THEN KeyError
    ELSE None

\* the markers left when those of the records at the positions of S that
\* the pass cleans are removed
CleanedMarkers(marks, sessions, done, S) ==
    {mk \in marks :
        \A i \in S : done[i].clean =>
            mk \in _clean_notification_markers(marks, Item(sessions[i], "id"))}

\* the loop of cleanup_orphan_sessions over a list and the save after it;
\* an exception leaves the loop at the first record that raises, with the
\* markers of the records before it cleaned and nothing saved
CleanupPass(file, data, sessions, marks, now) ==
    LET raising == {i \in 1..Len(sessions) : EndTimeRaises(sessions[i]) # None}
        first == IF raising = {} THEN Len(sessions) + 1
                 ELSE CHOOSE i \in raising : \A j \in raising : i <= j
        done == [i \in 1..(first - 1) |-> CleanupRecord(sessions[i], now)]
    IN IF raising = {}
       THEN [log |-> _save_log(SetItem(data, "sessions", 
                        PyList([i \in 1..Len(sessions) |-> done[i].rec]))),
             markers |-> CleanedMarkers(marks, sessions, done, 1..Len(sessions)),
             exc |-> None]
       ELSE [log |-> file,
             markers |-> CleanedMarkers(marks, sessions, done, 1..(first - 1)),
             exc |-> EndTimeRaises(sessions[first])]

\* cleanup_orphan_sessions(log_path, now): the log file and the markers
\* after the call, and the exception that left it, None when none did.
\* A sessions entry that is no list is iterated all the same: nothing to
\* do when it is an empty string or mapping, a TypeError otherwise.
cleanup_orphan_sessions(file, marks, now) ==
    LET data == _load_log(file)
        sessions == Item(data, "sessions")
    IN IF sessions.t = "list"
       THEN CleanupPass(file, data, sessions.v, marks, now)
       ELSE IF sessions.t \in {"str", "dict"} /\ ~Truthy(sessions)
       THEN [log |-> _save_log(data), markers |-> marks, exc |-> None]
       ELSE [log |-> file, markers |-> marks, exc |-> TypeError]

\* _parse_naive(dt_str) raises
ParseNaiveRaises(x) == x.t # "str" \/ FromIsoRaises(x)

_parse_naive(x) == FromIsoNaive(x)

BreakResult(ok, minutes_left) == [ok |-> ok, minutes_left |-> minutes_left]

\* mutant: an open record bypasses the break check whatever its age
ActiveSessionExists_AnyAge(sessions, now) ==
    \E i \in 1..Len(sessions) :
        LET s == sessions[i]
        IN /\ Get(s, "end_time", None) = None
           /\ Nonempty(Get(s, "start_time", None))
           /\ ~ParseNaiveRaises(Item(s, "start_time"))

\* lines 483-491: some open record started within [0, 4h) before now
ActiveSessionExists(sessions, now) ==
    \E i \in 1..Len(sessions) :
        LET s == sessions[i]
        IN /\ Get(s, "end_time", None) = None
           /\ Nonempty(Get(s, "start_time", None))
           /\ ~ParseNaiveRaises(Item(s, "start_time"))
           /\ LET age == TimeDelta(now, _parse_naive(Item(s, "start_time")))
              IN TdAtLeast(age, 0) /\ TdBelow(age, ORPHAN_THRESHOLD_HOURS * 3600)

\* the state of the backward walk: the work accumulated, the interaction
\* of the most recent counted record, the start of the record visited last
WalkStart == [cumulative_work |-> [s |-> 0, us |-> 0],
              last_interaction |-> None, prev_session_start |-> None]

\* mutant: the walk does not stop at a real break
RECURSIVE BackwardWalk_NoStop(_, _, _, _)
BackwardWalk_NoStop(sessions, i, w, min_break_minutes) ==
    IF i = 0 THEN w
    ELSE LET s == sessions[i]
             skip == BackwardWalk_NoStop(sessions, i - 1, w, min_break_minutes)
         IN IF ~Nonempty(Get(s, "end_time", None))
               \/ ~Nonempty(Get(s, "start_time", None))
            THEN skip
            ELSE IF \/ ParseNaiveRaises(Item(s, "end_time"))
                    \/ ParseNaiveRaises(Item(s, "start_time"))
                    \/ /\ Nonempty(Get(s, "last_activity", None))
                       /\ Get(s, "last_activity", None).t # "str"
            THEN skip
            ELSE LET end == _parse_naive(Item(s, "end_time"))
                     start == _parse_naive(Item(s, "start_time"))
                     activity_str == Get(s, "last_activity", None)
                     session_interaction ==
                         IF Nonempty(activity_str) /\ ~ParseNaiveRaises(activity_str)
                         THEN _parse_naive(activity_str)
                         ELSE end
                     duration == TimeDelta(end, start)
                 IN IF TdBelow(duration, min_break_minutes * 60)
                    THEN BackwardWalk_NoStop(sessions, i - 1,
                             [w EXCEPT !.prev_session_start = start],
                             min_break_minutes)
                    ELSE BackwardWalk_NoStop(sessions, i - 1,
                             [cumulative_work |-> TdAdd(w.cumulative_work, duration),
                              last_interaction |->
                                  IF w.last_interaction = None
                                  THEN session_interaction
                                  ELSE w.last_interaction,
                              prev_session_start |-> start],
                             min_break_minutes)

\* lines 499-532: the walk from record i down to the first one
RECURSIVE BackwardWalk(_, _, _, _)
BackwardWalk(sessions, i, w, min_break_minutes) ==
    IF i = 0 THEN w
    ELSE LET s == sessions[i]
             skip == BackwardWalk(sessions, i - 1, w, min_break_minutes)
         IN IF ~Nonempty(Get(s, "end_time", None))
               \/ ~Nonempty(Get(s, "start_time", None))
            THEN skip
            ELSE IF \/ ParseNaiveRaises(Item(s, "end_time"))
                    \/ ParseNaiveRaises(Item(s, "start_time"))
                    \/ /\ Nonempty(Get(s, "last_activity", None))
                       /\ Get(s, "last_activity", None).t # "str"
            THEN skip
            ELSE LET end == _parse_naive(Item(s, "end_time"))
                     start == _parse_naive(Item(s, "start_time"))
                     activity_str == Get(s, "last_activity", None)
                     session_interaction ==
                         IF Nonempty(activity_str) /\ ~ParseNaiveRaises(activity_str)
                         THEN _parse_naive(activity_str)
                         ELSE end
                     duration == TimeDelta(end, start)
                 IN IF w.prev_session_start # None
                       /\ TdAtLeast(TimeDelta(w.prev_session_start,
                                              session_interaction),
                                    min_break_minutes * 60)
                    THEN w
                    ELSE IF TdBelow(duration, min_break_minutes * 60)
                    THEN BackwardWalk(sessions, i - 1,
                             [w EXCEPT !.prev_session_start = start],
                             min_break_minutes)
                    ELSE BackwardWalk(sessions, i - 1,
                             [cumulative_work |-> TdAdd(w.cumulative_work, duration),
                              last_interaction |->
                                  IF w.last_interaction = None
                                  THEN session_interaction
                                  ELSE w.last_interaction,
                              prev_session_start |-> start],
                             min_break_minutes)

\* int(min_break_minutes - elapsed), elapsed < min_break_minutes in minutes
MinutesLeft(min_break_minutes, elapsed) ==
    LET whole == min_break_minutes * 60 - elapsed.s - (IF elapsed.us > 0 THEN 1 ELSE 0)
    IN whole \div 60

\* iterating sessions and calling s.get on its elements raises: sessions
\* is a number (TypeError), a string or mapping that is not empty, or a
\* list with an element that is no mapping (AttributeError)
RecordsRaise(sessions) ==
    IF sessions.t \in {"int", "bool"} THEN TypeError
    ELSE IF sessions.t # "list" THEN AttributeError
    ELSE IF \E i \in 1..Len(sessions.v) : sessions.v[i].t # "dict"
    THEN AttributeError
    ELSE None

\* mutant: a break is required only above max_continuous_minutes
check_break_AboveMax(file, min_break_minutes, now, max_continuous_minutes) ==
    LET data == _load_log(file)
        sessions == Get(data, "sessions", EmptyList).v
        w == BackwardWalk(sessions, Len(sessions), WalkStart, min_break_minutes)
    IN IF ~Truthy(Get(data, "sessions", EmptyList)) THEN BreakResult(TRUE, 0)
       ELSE IF RecordsRaise(Get(data, "sessions", EmptyList)) # None
       THEN RecordsRaise(Get(data, "sessions", EmptyList))
       ELSE IF ActiveSessionExists(sessions, now) THEN BreakResult(TRUE, 0)
       ELSE IF w.last_interaction = None THEN BreakResult(TRUE, 0)
       ELSE IF ~TdOver(w.cumulative_work, max_continuous_minutes * 60)
       THEN BreakResult(TRUE, 0)
       ELSE IF TdAtLeast(TimeDelta(now, w.last_interaction), min_break_minutes * 60)
       THEN BreakResult(TRUE, 0)
       ELSE BreakResult(FALSE,
                MinutesLeft(min_break_minutes, TimeDelta(now, w.last_interaction)))

\* mutant: the break is over only after more than min_break_minutes
check_break_StrictElapsed(file, min_break_minutes, now, max_continuous_minutes) ==
    LET data == _load_log(file)
        sessions == Get(data, "sessions", EmptyList).v
        w == BackwardWalk(sessions, Len(sessions), WalkStart, min_break_minutes)
    IN IF ~Truthy(Get(data, "sessions", EmptyList)) THEN BreakResult(TRUE, 0)
       ELSE IF RecordsRaise(Get(data, "sessions", EmptyList)) # None
       THEN RecordsRaise(Get(data, "sessions", EmptyList))
       ELSE IF ActiveSessionExists(sessions, now) THEN BreakResult(TRUE, 0)
       ELSE IF w.last_interaction = None THEN BreakResult(TRUE, 0)
       ELSE IF TdBelow(w.cumulative_work, max_continuous_minutes * 60)
       THEN BreakResult(TRUE, 0)
       ELSE IF TdOver(TimeDelta(now, w.last_interaction), min_break_minutes * 60)
       THEN BreakResult(TRUE, 0)
       ELSE BreakResult(FALSE,
                MinutesLeft(min_break_minutes, TimeDelta(now, w.last_interaction)))

\* check_break(log_path, min_break_minutes, now, max_continuous_minutes):
\* the result, or the exception that leaves the call
check_break(file, min_break_minutes, now, max_continuous_minutes) ==
    LET data == _load_log(file)
        sessions == Get(data, "sessions", EmptyList).v
        w == BackwardWalk(sessions, Len(sessions), WalkStart, min_break_minutes)
    IN IF ~Truthy(Get(data, "sessions", EmptyList)) THEN BreakResult(TRUE, 0)
       ELSE IF RecordsRaise(Get(data, "sessions", EmptyList)) # None
       THEN RecordsRaise(Get(data, "sessions", EmptyList))
       ELSE IF ActiveSessionExists(sessions, now) THEN BreakResult(TRUE, 0)
       ELSE IF w.last_interaction = None THEN BreakResult(TRUE, 0)
       ELSE IF TdBelow(w.cumulative_work, max_continuous_minutes * 60)
       THEN BreakResult(TRUE, 0)
       ELSE IF TdAtLeast(TimeDelta(now, w.last_interaction), min_break_minutes * 60)
       THEN BreakResult(TRUE, 0)
       ELSE BreakResult(FALSE,
                MinutesLeft(min_break_minutes, TimeDelta(now, w.last_interaction)))

---------------------------------------------------------------------------
(* Config loading.  A path of the search path holds Missing, Unreadable    *)
(* (it exists and read_text raises) or TextFile(text).                     *)

Unreadable == [t |-> "unreadable"]
TextFile(text) == [t |-> "text", text |-> text]

RECURSIVE load_config_loop_NoMarkerTest(_, _)
load_config_loop_NoMarkerTest(config_paths, i) ==
    IF i > Len(config_paths) THEN None
    ELSE IF config_paths[i] = Missing \/ config_paths[i] = Unreadable
    THEN load_config_loop_NoMarkerTest(config_paths, i + 1)
    ELSE LET Usable(config) ==
                 IF config.t = "dict" /\ config # EmptyDict
                 THEN config
                 ELSE load_config_loop_NoMarkerTest(config_paths, i + 1)
         IN Usable(parse_yaml(config_paths[i].text))

\* the for loop of load_config from the i-th path on
RECURSIVE load_config_loop(_, _)
load_config_loop(config_paths, i) ==
    IF i > Len(config_paths) THEN None
    ELSE IF config_paths[i] = Missing \/ config_paths[i] = Unreadable
    THEN load_config_loop(config_paths, i + 1)
    ELSE LET Usable(config) ==
                 IF config.t = "dict"
                    /\ Get(config, "framework", None) = PyStr(<<"human-md">>)
                 THEN config
                 ELSE load_config_loop(config_paths, i + 1)
         IN Usable(parse_yaml(config_paths[i].text))

load_config(config_paths) == load_config_loop(config_paths, 1)

---------------------------------------------------------------------------
(* Epoch computation for session-state.json.  A time zone is its UTC       *)
(* offset in seconds (zones without daylight saving); an aware datetime is *)
(* its wall time [s, us] together with the zone.                           *)

\* ZoneInfo(tz_name), and ZoneInfo("UTC") when it raises
ZoneInfo(tz_name) ==
    IF tz_name = PyStr(<<"Asia/Tokyo">>) THEN 9 * 3600
    ELSE IF tz_name = PyStr(<<"America/Bogota">>) THEN 0 - 5 * 3600
    ELSE 0

\* mutant: the wall time is taken for UTC
Timestamp_Utc(wall, tz) == wall.s

\* int(dt.timestamp()), dt the wall time wall in the zone tz
Timestamp(wall, tz) == wall.s - tz

\* datetime.now(tz), the system clock reading the UTC instant clock_now
DatetimeNow(clock_now, tz) == [s |-> clock_now.s + tz, us |-> clock_now.us]

_time_to_epoch_today(t, tz, now) ==
    Timestamp([s |-> (now.s \div 86400) * 86400 + t.hour * 3600 + t.minute * 60
                     + t.second,
               us |-> t.microsecond], tz)

\* str(n) of an integer n
RECURSIVE NatText(_)
NatText(n) == IF n < 10 THEN <<Digits[n + 1]>>
              ELSE NatText(n \div 10) \o <<Digits[(n % 10) + 1]>>

IntText(n) == IF n < 0 THEN <<"-">> \o NatText(0 - n) ELSE NatText(n)

\* str(x) of a string or an integer
str(x) == IF x.t = "int" THEN IntText(x.v) ELSE x.v

\* str(messages.get(key, "") or "").strip()
MessageOf(messages, key) ==
    LET m == Get(messages, key, PyStr(<<>>))
    IN IF Truthy(m) THEN strip(str(m)) ELSE <<>>

\* mutant: the wind-down of an overnight window is always today's
WindDownEpoch_Today(wind_down, start_minutes, end_minutes, tz, now_dt) ==
    IF ~Truthy(wind_down) THEN 0
    ELSE _time_to_epoch_today(_parse_time(Item(wind_down, "start")), tz, now_dt)

\* lines 579-595
WindDownEpoch(wind_down, start_minutes, end_minutes, tz, now_dt) ==
    IF ~Truthy(wind_down) THEN 0
    ELSE LET wd_time == _parse_time(Item(wind_down, "start"))
             wind_down_epoch == _time_to_epoch_today(wd_time, tz, now_dt)
             wd_minutes == _time_to_minutes(wd_time)
             now_minutes == _time_to_minutes(NowTime(now_dt))
         IN IF end_minutes # 0 /\ end_minutes < start_minutes
            THEN IF wd_minutes >= start_minutes
                 THEN IF now_minutes < end_minutes
                      THEN wind_down_epoch - 86400 ELSE wind_down_epoch
                 ELSE IF now_minutes >= start_minutes
                      THEN wind_down_epoch + 86400 ELSE wind_down_epoch
            ELSE wind_down_epoch

\* lines 596-603
EndAllowedEpoch(end_time, start_minutes, end_minutes, tz, now_dt, now_epoch) ==
    IF end_minutes = 0
    THEN _time_to_epoch_today(time(0, 0), tz, now_dt) + 86400
    ELSE LET end_epoch == _time_to_epoch_today(end_time, tz, now_dt)
         IN IF end_minutes < start_minutes /\ end_epoch <= now_epoch
            THEN end_epoch + 86400 ELSE end_epoch

\* mutant: the bounds are never shifted back to yesterday's instance
BlockedPeriodEpochs_NoShift(bp, tz, now_dt, now_epoch) ==
    LET bp_start_epoch == _time_to_epoch_today(_parse_time(Item(bp, "start")), tz, now_dt)
        end_today == _time_to_epoch_today(_parse_time(Item(bp, "end")), tz, now_dt)
    IN [name |-> Get(bp, "name", PyStr(<<"unknown">>)),
        start_epoch |-> bp_start_epoch,
        end_epoch |-> IF end_today <= bp_start_epoch
                      THEN end_today + 86400 ELSE end_today]

\* lines 608-627: the snapshot entry of the blocked period bp
BlockedPeriodEpochs(bp, tz, now_dt, now_epoch) ==
    LET bp_start == _parse_time(Item(bp, "start"))
        bp_end == _parse_time(Item(bp, "end"))
        bp_start_epoch == _time_to_epoch_today(bp_start, tz, now_dt)
        end_today == _time_to_epoch_today(bp_end, tz, now_dt)
        bp_end_epoch == IF end_today <= bp_start_epoch
                        THEN end_today + 86400 ELSE end_today
        prev_start == bp_start_epoch - 86400
        prev_end == bp_end_epoch - 86400
        shift == bp_start_epoch > now_epoch
                 /\ now_epoch >= prev_start /\ now_epoch < prev_end
    IN [name |-> Get(bp, "name", PyStr(<<"unknown">>)),
        start_epoch |-> IF shift THEN prev_start ELSE bp_start_epoch,
        end_epoch |-> IF shift THEN prev_end ELSE bp_end_epoch]

\* compute_session_state(config, now_dt, tz), uuid.uuid4().hex[:8] being
\* session_id
compute_session_state(config, now_dt, tz, session_id) ==
    LET schedule == Get(config, "schedule", EmptyDict)
        sessions == Get(config, "sessions", EmptyDict)
        messages0 == Get(config, "messages", EmptyDict)
        messages == IF messages0 = None THEN EmptyDict ELSE messages0
        now_epoch == Timestamp(now_dt, tz)
        max_minutes == Get(sessions, "max_continuous_minutes", PyInt(150)).v
        allowed == Get(schedule, "allowed_hours", EmptyDict)
        start_time_cfg == _parse_time(Get(allowed, "start", PyStr(<<"0","0",":","0","0">>)))
        end_time == _parse_time(Get(allowed, "end", PyStr(<<"2","3",":","5","9">>)))
        start_minutes == _time_to_minutes(start_time_cfg)
        end_minutes == _time_to_minutes(end_time)
        periods == Get(schedule, "blocked_periods", EmptyList).v
    IN \* sessions.get of line 567, schedule.get and allowed.get of lines
       \* 572-574, messages.get of lines 639-643
       IF ~IsMapping(sessions) THEN AttributeError
       ELSE IF ~IsMapping(schedule) THEN AttributeError
       ELSE IF ~IsMapping(allowed) THEN AttributeError
       ELSE IF ~IsMapping(messages) THEN AttributeError
       ELSE
       [session_id |-> session_id,
        start_epoch |-> now_epoch,
        max_epoch |-> now_epoch + max_minutes * 60,
        \* int(max_minutes * 60 * 0.8): the product is a whole number
        warn_epoch |-> now_epoch + (max_minutes * 60 * 8) \div 10,
        wind_down_epoch |->
            WindDownEpoch(Get(schedule, "wind_down", None), start_minutes,
                          end_minutes, tz, now_dt),
        end_allowed_epoch |->
            EndAllowedEpoch(end_time, start_minutes, end_minutes, tz, now_dt,
                            now_epoch),
        blocked_periods |->
            [i \in 1..Len(periods) |->
                BlockedPeriodEpochs(periods[i], tz, now_dt, now_epoch)],
        enforcement |-> Get(config, "enforcement", PyStr(<<"soft">>)),
        messages |->
            [session_limit |-> MessageOf(messages, "session_limit"),
             wind_down |-> MessageOf(messages, "wind_down"),
             blocked_period |-> MessageOf(messages, "blocked_period"),
             break_reminder |-> MessageOf(messages, "break_reminder"),
             outside_hours |-> MessageOf(messages, "outside_hours")]]

---------------------------------------------------------------------------
(* Main check() function.  fs holds the files a call finds: state_file,    *)
(* log_file and markers.  The outcome of a call is its exit code, the      *)
(* lines it prints to stderr, the files it leaves and the write_text calls *)
(* it makes; a call that lets an exception through has raised set, and its *)
(* exit code is the 1 the interpreter exits with.                          *)

Outcome(rc, out, state, log, marks, wr) ==
    [rc |-> rc, raised |-> FALSE, stderr |-> out, state_file |-> state,
     log_file |-> log, markers |-> marks, writes |-> wr]

\* the AttributeError leaves check after out was printed and wr written
Raised(out, state, log, marks, wr) ==
    [rc |-> 1, raised |-> TRUE, stderr |-> out, state_file |-> state,
     log_file |-> log, markers |-> marks, writes |-> wr]

\* if msg: print(str(msg).strip(), file=sys.stderr)
PrintMessage(msg) == IF Truthy(msg) THEN <<strip(str(msg))>> ELSE <<>>

\* f"Need {minutes_left} more minutes of break."
NeedBreakLine(minutes_left) ==
    <<"Need ">> \o IntText(minutes_left) \o <<" more minutes of break.">>

\* "... and not force" of lines 686, 698 and 714
Enforced(violation, force) == violation /\ ~force

\* state = compute_session_state(...), state_path.write_text(...) and
\* return rc, with old the snapshot on disk before the call
WriteState(rc, out, state, old, log, marks, wr) ==
    IF state = AttributeError
    THEN Raised(out, old, log, marks, wr)
    ELSE Outcome(rc, out, JsonFile(state), log, marks, wr \o <<"state">>)

\* lines 687-696
BlockedBranch(config, result, enforcement, state, fs) ==
    LET messages == Get(config, "messages", EmptyDict)
        Printed(out) ==
            IF enforcement = PyStr(<<"advisory">>)
            THEN WriteState(0, out, state, fs.state_file, fs.log_file,
                            fs.markers, <<>>)
            ELSE Outcome(1, out, fs.state_file, fs.log_file, fs.markers, <<>>)
    IN IF ~IsMapping(messages)
       THEN Raised(<<>>, fs.state_file, fs.log_file, fs.markers, <<>>)
       ELSE Printed(PrintMessage(Get(messages, result.reason, PyStr(<<>>))))

\* lines 699-706
WindDownBranch(config, state, fs) ==
    LET messages == Get(config, "messages", EmptyDict)
    IN IF ~IsMapping(messages)
       THEN Raised(<<>>, fs.state_file, fs.log_file, fs.markers, <<>>)
       ELSE WriteState(2, PrintMessage(Get(messages, "wind_down", PyStr(<<>>))),
                       state, fs.state_file, fs.log_file, fs.markers, <<>>)

\* lines 714-734 with the soft exit of line 728 letting the call through
BreakExit_SoftPasses(break_result, enforcement, state, fs, cleaned, force) ==
    IF Enforced(~break_result.ok, force)
    THEN WriteState(0, <<NeedBreakLine(break_result.minutes_left)>>,
                    state, fs.state_file, cleaned.log, cleaned.markers,
                    <<"log">>)
    ELSE WriteState(0, <<>>, state, fs.state_file, cleaned.log,
                    cleaned.markers, <<"log">>)

\* lines 714-734, after the orphan cleanup that left cleaned
BreakExit(break_result, enforcement, state, fs, cleaned, force) ==
    IF Enforced(~break_result.ok, force)
    THEN IF enforcement = PyStr(<<"advisory">>)
         THEN WriteState(0, <<NeedBreakLine(break_result.minutes_left)>>,
                         state, fs.state_file, cleaned.log, cleaned.markers,
                         <<"log">>)
         ELSE Outcome(1, <<NeedBreakLine(break_result.minutes_left)>>,
                      fs.state_file, cleaned.log, cleaned.markers, <<"log">>)
    ELSE WriteState(0, <<>>, state, fs.state_file, cleaned.log,
                    cleaned.markers, <<"log">>)

\* lines 709-734
BreakBranch(config, enforcement, state, fs, force, now_naive) ==
    LET sessions_config == Get(config, "sessions", EmptyDict)
        min_break == Get(sessions_config, "min_break_minutes", PyInt(15)).v
        max_continuous ==
            Get(sessions_config, "max_continuous_minutes", PyInt(150)).v
        Broken(cleaned, break_result) ==
            IF IsException(break_result)
            THEN Raised(<<>>, fs.state_file, cleaned.log, cleaned.markers,
                        <<"log">>)
            ELSE BreakExit(break_result, enforcement, state, fs, cleaned, force)
        Exit(cleaned) ==
            IF cleaned.exc # None
            THEN Raised(<<>>, fs.state_file, cleaned.log, cleaned.markers, <<>>)
            ELSE Broken(cleaned, check_break(cleaned.log, min_break, now_naive,
                                             max_continuous))
    IN IF ~IsMapping(sessions_config)
       THEN Raised(<<>>, fs.state_file, fs.log_file, fs.markers, <<>>)
       ELSE Exit(cleanup_orphan_sessions(fs.log_file, fs.markers, now_naive))

\* check(config_paths, state_path, log_path, force, now): the system clock
\* reads clock and uuid4 yields session_id
check(config_paths, fs, force, now, clock_now, session_id) ==
    LET \* lines 683-734
        Decide(config, now_naive, result, enforcement, state) ==
            IF result = AttributeError
            THEN Raised(<<>>, fs.state_file, fs.log_file, fs.markers, <<>>)
            ELSE IF Enforced(result.status = "blocked", force)
            THEN BlockedBranch(config, result, enforcement, state, fs)
            ELSE IF Enforced(result.status = "wind_down", force)
            THEN WindDownBranch(config, state, fs)
            ELSE BreakBranch(config, enforcement, state, fs, force, now_naive)
        \* lines 674-680
        Timed(config, tz, now_naive) ==
            Decide(config, now_naive, check_schedule(config, now_naive),
                   Get(config, "enforcement", PyStr(<<"soft">>)),
                   compute_session_state(config, now_naive, tz, session_id))
        \* lines 668-672
        Zoned(config, tz) ==
            Timed(config, tz, IF now = None THEN DatetimeNow(clock_now, tz) ELSE now)
        \* lines 665-668
        Loaded(config) ==
            IF config = None
            THEN Outcome(0, <<>>, fs.state_file, fs.log_file, fs.markers, <<>>)
            ELSE IF ~IsMapping(Get(config, "operator", EmptyDict))
            THEN Raised(<<>>, fs.state_file, fs.log_file, fs.markers, <<>>)
            ELSE Zoned(config, ZoneInfo(Get(Get(config, "operator", EmptyDict),
                                            "timezone", PyStr(<<"UTC">>))))
    IN Loaded(load_config(config_paths))

---------------------------------------------------------------------------
(* The schedule evaluator as a pure function: the configurations and the  *)
(* instants it is evaluated on.                                            *)

Absent == [t |-> "absent"]
NoResult == [t |-> "none"]

\* a dict with the entry k: x, without it when x is Absent
Entry(k, x) == IF x = Absent THEN <<>> ELSE (<<k>> :> x)

TwoDigits(n) == <<Digits[(n \div 10) + 1], Digits[(n % 10) + 1]>>

\* "HH:MM" of minute-of-day hm[1]*60 + hm[2]
HHMM(hm) == PyStr(TwoDigits(hm[1]) \o <<":">> \o TwoDigits(hm[2]))

MaxPeriods == 2

\* 1970-01-02, a Friday, and 1970-01-03
NowDays == {1, 2}

\* allowed_hours: <<start, end>>
AllowedWindows ==
    {<<<<9, 0>>, <<0, 0>>>>, <<<<22, 0>>, <<6, 0>>>>, <<<<9, 0>>, <<17, 0>>>>,
     <<<<9, 0>>, <<9, 0>>>>, <<<<0, 0>>, <<0, 0>>>>}

AllowedHoursChoices ==
    {Absent}
    \cup {PyDict(Entry("start", HHMM(w[1])) @@ Entry("end", HHMM(w[2]))) :
            w \in AllowedWindows}

\* blocked periods: two named ones that overlap from 20:00 to 21:00, the
\* second wrapping midnight, and one without a name whose start is its end
PeriodPool ==
    {PyDict(Entry("name", PyStr(<<"family">>)) @@ Entry("start", HHMM(<<18, 0>>))
            @@ Entry("end", HHMM(<<21, 0>>))),
     PyDict(Entry("name", PyStr(<<"night">>)) @@ Entry("start", HHMM(<<20, 0>>))
            @@ Entry("end", HHMM(<<1, 0>>))),
     PyDict(Entry("start", HHMM(<<12, 0>>)) @@ Entry("end", HHMM(<<12, 0>>)))}

\* the lists of at most MaxPeriods distinct periods
BlockedPeriodsChoices ==
    {Absent} \cup
    {PyList(l) : l \in UNION {{f \in [1..n -> PeriodPool] :
                                  \A i, j \in 1..n : f[i] = f[j] => i = j} :
                              n \in 0..MaxPeriods}}

WindDownChoices ==
    {Absent} \cup
    {PyDict(Entry("start", HHMM(t))) :
        t \in {<<23, 30>>, <<5, 30>>, <<17, 0>>}}

BlockedDaysChoices ==
    {Absent, EmptyList,
     PyList(<<PyStr(<<"Sunday">>), PyStr(<<"Saturday">>)>>)}

ScheduleConfigs ==
    {PyDict(Entry("framework", PyStr(<<"human-md">>)) @@
            Entry("schedule",
                  PyDict(Entry("allowed_hours", a) @@ Entry("blocked_periods", p)
                         @@ Entry("wind_down", w) @@ Entry("blocked_days", d)))) :
        a \in AllowedHoursChoices, p \in BlockedPeriodsChoices,
        w \in WindDownChoices, d \in BlockedDaysChoices}

\* the minutes of the day on and next to the configured boundaries
BoundaryMinutes ==
    {0, 60, 180, 330, 360, 540, 720, 1020, 1080, 1200, 1260, 1320, 1380, 1410}

NowMinutes ==
    {m \in 0..1439 : \E b \in BoundaryMinutes :
        m \in {b - 1, b, b + 1} \/ m = b + 1439}

ScheduleNows ==
    {[s |-> d * 86400 + m * 60 + sec[1], us |-> sec[2]] :
        d \in NowDays, m \in NowMinutes,
        sec \in {<<0, 0>>, <<59, 999999>>}}

\* no file is involved
NoFiles ==
    /\ config_files = <<>>
    /\ state_file = Missing
    /\ log_file = Missing
    /\ markers = {}
    /\ sentinels = <<>>
    /\ stderr = <<>>
    /\ writes = <<>>
    /\ clock = [s |-> 0, us |-> 0]

InitSchedule ==
    /\ arg \in [config : ScheduleConfigs, now : ScheduleNows]
    /\ res = NoResult
    /\ NoFiles

EvalSchedule ==
    /\ res = NoResult
    /\ res' = check_schedule(arg.config, arg.now)
    /\ UNCHANGED <<arg, config_files, state_file, log_file, markers, sentinels,
                   stderr, writes, clock>>

NextSchedule == EvalSchedule

SpecSchedule == InitSchedule /\ [][NextSchedule]_vars

Spec == SpecSchedule

---------------------------------------------------------------------------
(* The --check flow: the configuration texts, the search paths, the        *)
(* ledgers and the instants check is called on.                            *)

Spaces(n) == [i \in 1..n |-> " "]

\* a line of text indented by n
Line(n, letters) == Spaces(n) \o letters \o <<"\n">>

Quoted(letters) == <<"\"">> \o letters \o <<"\"">>

\* "key:" and "key: value"
Key(n, k) == Line(n, <<k, ":">>)
KeyVal(n, k, v) == Line(n, <<k, ":", " ">> \o v)

AllowedHoursText(start, end) ==
    Key(2, "allowed_hours")
    \o KeyVal(4, "start", Quoted(HHMM(start).v))
    \o KeyVal(4, "end", Quoted(HHMM(end).v))

\* the schedule of SAMPLE_YAML: 09:00-00:00, family 18:00-21:00, wind-down
\* from 23:30
SampleSchedule ==
    Key(0, "schedule")
    \o AllowedHoursText(<<9, 0>>, <<0, 0>>)
    \o Key(2, "blocked_periods")
    \o Line(4, <<"-", " ", "name", ":", " ">> \o Quoted(<<"family">>))
    \o KeyVal(6, "start", Quoted(HHMM(<<18, 0>>).v))
    \o KeyVal(6, "end", Quoted(HHMM(<<21, 0>>).v))
    \o Key(2, "wind_down")
    \o KeyVal(4, "start", Quoted(HHMM(<<23, 30>>).v))

\* a night schedule: 22:00-06:00, wind-down from 05:30, no Saturdays
NightSchedule ==
    Key(0, "schedule")
    \o AllowedHoursText(<<22, 0>>, <<6, 0>>)
    \o Key(2, "wind_down")
    \o KeyVal(4, "start", Quoted(HHMM(<<5, 30>>).v))
    \o Key(2, "blocked_days")
    \o Line(4, <<"-", " ", "Saturday">>)

ScheduleTexts == {<<>>, SampleSchedule, NightSchedule}

OperatorTexts ==
    {<<>>,
     Key(0, "operator") \o KeyVal(2, "name", Quoted(<<"Javi">>))
        \o KeyVal(2, "timezone", Quoted(<<"Asia/Tokyo">>))}

SessionsTexts ==
    {<<>>,
     Key(0, "sessions") \o KeyVal(2, "max_continuous_minutes", <<"6", "0">>)
        \o KeyVal(2, "min_break_minutes", <<"3", "0">>)}

EnforcementTexts ==
    {<<>>, KeyVal(0, "enforcement", <<"soft">>),
     KeyVal(0, "enforcement", <<"advisory">>)}

MessagesTexts ==
    {<<>>,
     Key(0, "messages")
        \o KeyVal(2, "outside_hours", <<">">>)
        \o Line(4, <<"Fuera", " ", "de">>) \o Line(4, <<"horario.">>)
        \o KeyVal(2, "blocked_period", <<">">>)
        \o Line(4, <<"Tiempo", " ", "de", " ", "familia.">>)
        \o KeyVal(2, "wind_down", <<"Empieza", " ", "a", " ", "cerrar.", " ",
                                    "#", " ", "23:30">>)}

Marker == KeyVal(0, "version", Quoted(<<"1", ".", "1">>))
          \o KeyVal(0, "framework", <<"human-md">>)

\* a section key with nothing under it, which parses to None: the sample
\* configuration with such an operator, sessions or messages section, and
\* a configuration whose schedule is one
NullSectionTexts ==
    {Marker \o SampleSchedule \o e \o Key(0, k) :
        e \in EnforcementTexts \ {<<>>},
        k \in {"operator", "sessions", "messages"}}
    \cup {Marker \o e \o Key(0, "schedule") : e \in EnforcementTexts \ {<<>>}}

\* the operator section comes with the default sessions and messages
ConfigTexts ==
    {Marker \o c[1] \o c[2] \o c[3] \o c[4] \o c[5] :
        c \in {d \in OperatorTexts \X ScheduleTexts \X SessionsTexts
                        \X EnforcementTexts \X MessagesTexts :
                   d[1] # <<>> => d[3] = <<>> /\ d[5] = <<>>}}
    \cup NullSectionTexts

\* the sample configuration under each enforcement mode
SoftText == Marker \o SampleSchedule \o KeyVal(0, "enforcement", <<"soft">>)
AdvisoryText ==
    Marker \o SampleSchedule \o KeyVal(0, "enforcement", <<"advisory">>)

\* a configuration of another framework, and the text of
\* test_corrupt_yaml_passthrough
NoMarkerText ==
    KeyVal(0, "framework", <<"other-md">>) \o SampleSchedule
    \o KeyVal(0, "enforcement", <<"advisory">>)
CorruptText ==
    <<":", " ", ":", " ", ":", " ", "not", ":", " ", "valid", ":", " ",
      "yaml", ":", " ", "[[[">>

\* the search path has the entries cwd, repository root and global
MaxSearchPath == 3

PathFiles ==
    {Missing, Unreadable, TextFile(NoMarkerText), TextFile(SoftText),
     TextFile(AdvisoryText)}

SearchPaths ==
    {<<>>, <<TextFile(CorruptText)>>, <<TextFile(<<>>)>>}
    \cup UNION {[1..n -> PathFiles] : n \in 1..MaxSearchPath}

\* str, the ISO text of an aware local datetime of UTC offset 0
At(day, hour, minute) ==
    IsoFormat([s |-> day * 86400 + hour * 3600 + minute * 60, us |-> 0], TRUE, 0)

\* a record as start_session writes it, closed when end # None
Record(id, start, end) ==
    PyDict(Entry("id", PyStr(<<id>>)) @@ Entry("start_time", start)
           @@ Entry("end_time", end) @@ Entry("project_dir", PyStr(<<"/tmp">>))
           @@ Entry("forced", PyBool(FALSE))
           @@ (IF end = None THEN <<>> ELSE Entry("last_activity", end)))

Ledger(records) == JsonFile(PyDict(Entry("sessions", PyList(records))))

\* the ledgers with the markers next to them: none, a corrupt one, a
\* morning of work (140 minutes to 11:50), the same with a session open
\* since 11:55, with and without markers, and an evening of work (160
\* minutes to 23:40), all on 1970-01-02
MorningLedger == Ledger(<<Record("aaaa1111", At(1, 9, 30), At(1, 11, 50))>>)

OpenLedger ==
    Ledger(<<Record("aaaa1111", At(1, 9, 30), At(1, 11, 50)),
             Record("bbbb2222", At(1, 11, 55), None)>>)

EveningLedger == Ledger(<<Record("aaaa1111", At(1, 21, 0), At(1, 23, 40))>>)

LogStates ==
    {<<Missing, {}>>, <<JsonFile(InvalidJson), {}>>, <<MorningLedger, {}>>,
     <<OpenLedger, {}>>,
     <<OpenLedger, {<<"session_limit", PyStr(<<"bbbb2222">>)>>,
                    <<"warn_80", PyStr(<<"cccc3333">>)>>}>>,
     <<EveningLedger, {}>>}

\* the value of uuid.uuid4().hex[:8]
SessionIds == {PyStr(<<"0f0f0f0f">>), PyStr(<<"1e1e1e1e">>)}

\* an instant of 1970-01-02, a Friday, or of the days after it
Instant(day, hour, minute) ==
    [s |-> day * 86400 + hour * 3600 + minute * 60, us |-> 0]

CheckNows ==
    {Instant(1, 3, 0), Instant(1, 5, 45), Instant(1, 12, 0), Instant(1, 19, 0),
     Instant(1, 23, 45), Instant(2, 3, 0), Instant(2, 12, 0)}

\* the system clock at 03:00 and at 14:45 UTC on 1970-01-02
ClockReadings == {[s |-> 86400 + 180 * 60, us |-> 250000], Instant(1, 14, 45)}

\* either one configuration file and any call, ledger and clock, or any
\* search path and a call at 03:00 or 12:00
InitCheck ==
    /\ res = NoResult
    /\ state_file = Missing
    /\ sentinels = <<>>
    /\ stderr = <<>>
    /\ writes = <<>>
    /\ \/ /\ config_files \in {<<TextFile(t)>> : t \in ConfigTexts}
          /\ arg \in [now : CheckNows \cup {None}, force : BOOLEAN]
          /\ clock \in ClockReadings
          /\ arg.now # None => clock = Instant(1, 14, 45)
          /\ \E ls \in LogStates : log_file = ls[1] /\ markers = ls[2]
       \/ /\ config_files \in SearchPaths
          /\ arg \in [now : {Instant(1, 3, 0), Instant(1, 12, 0)}, force : BOOLEAN]
          /\ clock = Instant(1, 14, 45)
          /\ log_file \in {Missing, MorningLedger}
          /\ markers = {}

\* the first line of the traceback the interpreter prints for an exception
\* that nothing catches
Traceback == <<"Traceback (most recent call last):">>

\* sys.exit(rc) of main, or the exception leaving main: the exit status,
\* what stderr holds and the files the call leaves
ProcessEnds(o) ==
    /\ res' = [rc |-> o.rc, raised |-> o.raised]
    /\ stderr' = stderr \o o.stderr \o (IF o.raised THEN <<Traceback>> ELSE <<>>)
    /\ state_file' = o.state_file
    /\ log_file' = o.log_file
    /\ markers' = o.markers
    /\ writes' = writes \o o.writes

\* guard --check: check(force=...) on the files as they are
Check ==
    /\ res = NoResult
    /\ \E session_id \in SessionIds :
          \E o \in {check(config_files,
                          [state_file |-> state_file, log_file |-> log_file,
                           markers |-> markers],
                          arg.force, arg.now, clock, session_id)} :
             ProcessEnds(o)
    /\ UNCHANGED <<arg, config_files, sentinels, clock>>

NextCheck == Check

SpecCheck == InitCheck /\ [][NextCheck]_vars

---------------------------------------------------------------------------
(* Claims on the --check flow (under SpecCheck).  The predicates below     *)
(* read the call from arg, clock and the files as the call finds them.     *)

\* the zone of the configuration, the instant a call evaluates in that
\* zone, and the enforcement mode
TzOf(config) ==
    ZoneInfo(Get(Get(config, "operator", EmptyDict), "timezone", PyStr(<<"UTC">>)))
NowIn(tz) == IF arg.now = None THEN DatetimeNow(clock, tz) ELSE arg.now
EnforcementOf(config) == Get(config, "enforcement", PyStr(<<"soft">>))
Soft == PyStr(<<"soft">>)
Advisory == PyStr(<<"advisory">>)

\* the section of the configuration, a mapping without entries when the
\* configuration has none
Section(config, k) == Get(config, k, EmptyDict)

\* every section of the configuration is a mapping, as the schema has it
WellFormed(config) ==
    /\ \A k \in {"operator", "schedule", "sessions", "messages"} :
          IsMapping(Section(config, k))
    /\ IsMapping(Section(Section(config, "schedule"), "allowed_hours"))

\* the verdict that check gets from check_schedule, AttributeError when the
\* call raises before it has one
VerdictOf(config) ==
    IF IsMapping(Section(config, "operator"))
    THEN check_schedule(config, NowIn(TzOf(config)))
    ELSE AttributeError

\* check_schedule classified now with this status
Classified(verdict, status) == verdict # AttributeError /\ verdict.status = status

\* the ledger, once its orphans are closed, asks for a break at now
BreakRequired(config, now) ==
    LET limits == Get(config, "sessions", EmptyDict)
    IN ~check_break(cleanup_orphan_sessions(log_file, markers, now).log,
                    Get(limits, "min_break_minutes", PyInt(15)).v, now,
                    Get(limits, "max_continuous_minutes", PyInt(150)).v).ok

\* the break check ran, on the verdict ok, and failed
BreakCheckFailed(config, verdict) ==
    /\ Classified(verdict, "ok")
    /\ IsMapping(Section(config, "sessions"))
    /\ BreakRequired(config, NowIn(TzOf(config)))

\* the step in which check runs, and check has run
CheckStep == res = NoResult /\ res' # NoResult
Returned == res # NoResult

\* the snapshots of a call on config
Snapshots(config, now, tz) ==
    {JsonFile(compute_session_state(config, now, tz, sid)) : sid \in SessionIds}

\* the step writes the snapshot of the call, as the last write
SnapshotWritten(config, now, tz) ==
    /\ state_file' \in Snapshots(config, now, tz)
    /\ writes' # writes
    /\ writes'[Len(writes')] = "state"

\* the step writes no file and removes no marker
NothingWritten == UNCHANGED <<state_file, log_file, markers, writes>>

\* C1 as stated: under soft enforcement and without force, a call that the
\* schedule classifies as blocked (blocked_day, outside_hours or
\* blocked_period) returns 1 and writes neither the snapshot nor the ledger.
C1_SoftBlockedReturns1 ==
    [][(CheckStep /\ ~arg.force)
       => LET config == load_config(config_files)
              verdict == VerdictOf(config)
          IN (/\ config # None
              /\ EnforcementOf(config) = Soft
              /\ Classified(verdict, "blocked"))
             => (/\ verdict.reason \in {"blocked_day", "outside_hours",
                                        "blocked_period"}
                 /\ ~res'.raised /\ res'.rc = 1
                 /\ NothingWritten)]_vars

\* C1, what holds: in that case the call ends with the status 1 and writes
\* neither the snapshot nor the ledger; it returns the 1 exactly when the
\* messages section is a mapping, and raises otherwise.
C1_SoftBlockedFails ==
    [][(CheckStep /\ ~arg.force)
       => LET config == load_config(config_files)
              verdict == VerdictOf(config)
          IN (/\ config # None
              /\ EnforcementOf(config) = Soft
              /\ Classified(verdict, "blocked"))
             => (/\ verdict.reason \in {"blocked_day", "outside_hours",
                                        "blocked_period"}
                 /\ res'.rc = 1
                 /\ res'.raised <=> ~IsMapping(Section(config, "messages"))
                 /\ NothingWritten)]_vars

\* a soft call at a blocked instant on a configuration whose messages
\* section is null: check raised instead of returning 1
C1_Witness ==
    /\ Returned /\ res.raised
    /\ ~arg.force
    /\ state_file = Missing /\ writes = <<>>
    /\ LET config == load_config(config_files)
       IN /\ config # None
          /\ EnforcementOf(config) = Soft
          /\ Section(config, "messages") = None
          /\ Classified(VerdictOf(config), "blocked")

\* C2 as stated: with force, check returns 0 and writes a snapshot for
\* every configuration that loads, whatever the verdict of the schedule and
\* whether or not the ledger asks for a break.
C2_ForcePasses ==
    [][(CheckStep /\ arg.force)
       => LET config == load_config(config_files)
              tz == TzOf(config)
          IN config # None
             => (/\ ~res'.raised /\ res'.rc = 0
                 /\ SnapshotWritten(config, NowIn(tz), tz))]_vars

\* C2, what holds: with force, check returns 0 and writes a snapshot for
\* every configuration that loads and whose sections are mappings.
C2_ForcePassesOnMappings ==
    [][(CheckStep /\ arg.force)
       => LET config == load_config(config_files)
              tz == TzOf(config)
          IN (config # None /\ WellFormed(config))
             => (/\ ~res'.raised /\ res'.rc = 0
                 /\ SnapshotWritten(config, NowIn(tz), tz))]_vars

\* a forced call on a configuration that loads and whose sessions section
\* is null: check raised and left no snapshot
C2_Witness ==
    /\ Returned /\ res.raised
    /\ arg.force
    /\ state_file = Missing /\ writes = <<>>
    /\ LET config == load_config(config_files)
       IN /\ config # None
          /\ Section(config, "sessions") = None

\* C3 as stated: under advisory enforcement and without force, a blocked
\* verdict of the schedule or a failed break check makes check return 0,
\* never 1, and write the snapshot, whose enforcement is advisory.
C3_AdvisoryPasses ==
    [][(CheckStep /\ ~arg.force)
       => LET config == load_config(config_files)
              tz == TzOf(config)
              verdict == VerdictOf(config)
          IN (/\ config # None
              /\ EnforcementOf(config) = Advisory
              /\ \/ Classified(verdict, "blocked")
                 \/ BreakCheckFailed(config, verdict))
             => (/\ ~res'.raised /\ res'.rc = 0
                 /\ SnapshotWritten(config, NowIn(tz), tz)
                 /\ state_file'.json.enforcement = Advisory)]_vars

\* C3, what holds: on a configuration whose sections are mappings, an
\* advisory call without force never returns 1 and always writes the
\* snapshot, whose enforcement is advisory; it returns 0 when the schedule
\* blocks and when the break check fails.
C3_AdvisoryPassesOnMappings ==
    [][(CheckStep /\ ~arg.force)
       => LET config == load_config(config_files)
              tz == TzOf(config)
              verdict == VerdictOf(config)
          IN (/\ config # None
              /\ WellFormed(config)
              /\ EnforcementOf(config) = Advisory)
             => (/\ ~res'.raised /\ res'.rc # 1
                 /\ SnapshotWritten(config, NowIn(tz), tz)
                 /\ state_file'.json.enforcement = Advisory
                 /\ (\/ Classified(verdict, "blocked")
                     \/ BreakCheckFailed(config, verdict))
                    => res'.rc = 0)]_vars

\* an advisory call at a blocked instant on a configuration whose messages
\* section is null: check raised, the process ended with the status 1 and
\* no snapshot was written
C3_Witness ==
    /\ Returned /\ res.raised /\ res.rc = 1
    /\ ~arg.force
    /\ state_file = Missing /\ writes = <<>>
    /\ LET config == load_config(config_files)
       IN /\ config # None
          /\ EnforcementOf(config) = Advisory
          /\ Section(config, "messages") = None
          /\ Classified(VerdictOf(config), "blocked")

\* C4 as stated: without force, a call that the schedule classifies as
\* wind_down returns 2 and writes the snapshot, under soft and under
\* advisory enforcement alike.
C4_WindDownWarns ==
    [][(CheckStep /\ ~arg.force)
       => LET config == load_config(config_files)
              tz == TzOf(config)
          IN (config # None /\ Classified(VerdictOf(config), "wind_down"))
             => (/\ ~res'.raised /\ res'.rc = 2
                 /\ SnapshotWritten(config, NowIn(tz), tz))]_vars

\* C4, what holds: the same on the configurations whose sections are
\* mappings.
C4_WindDownWarnsOnMappings ==
    [][(CheckStep /\ ~arg.force)
       => LET config == load_config(config_files)
              tz == TzOf(config)
          IN (/\ config # None
              /\ WellFormed(config)
              /\ Classified(VerdictOf(config), "wind_down"))
             => (/\ ~res'.raised /\ res'.rc = 2
                 /\ SnapshotWritten(config, NowIn(tz), tz))]_vars

\* a call in the wind-down window on a configuration whose sessions section
\* is null, under either enforcement: check raised and left no snapshot
C4_Witness ==
    /\ Returned /\ res.raised
    /\ ~arg.force
    /\ state_file = Missing /\ writes = <<>>
    /\ LET config == load_config(config_files)
       IN /\ config # None
          /\ Section(config, "sessions") = None
          /\ Classified(VerdictOf(config), "wind_down")

\* the file is there, reads and parses to a mapping that carries the marker
CarriesMarker(file) ==
    /\ file # Missing /\ file # Unreadable
    /\ LET parsed == parse_yaml(file.text)
       IN /\ parsed.t = "dict"
          /\ <<"framework">> \in DOMAIN parsed.v
          /\ parsed.v[<<"framework">>] = PyStr(<<"human-md">>)

Marked == {i \in 1..Len(config_files) : CarriesMarker(config_files[i])}

\* the step is the one check takes when the file is alone on the path
StepOnFile(file) ==
    \E sid \in SessionIds :
        ProcessEnds(check(<<file>>,
                          [state_file |-> state_file, log_file |-> log_file,
                           markers |-> markers],
                          arg.force, arg.now, clock, sid))

\* C5: when no file of the search path carries the marker (none exists,
\* or those that exist do not read or parse to a mapping with framework =
\* human-md), check returns 0, prints nothing and writes nothing;
\* otherwise it does what it does on the earliest file that carries the
\* marker alone.
C5_MarkerSelectsConfig ==
    [][CheckStep
       => LET marked == Marked
          IN IF marked = {}
             THEN /\ ~res'.raised /\ res'.rc = 0
                  /\ NothingWritten /\ stderr' = stderr
             ELSE StepOnFile(config_files[CHOOSE i \in marked :
                                             \A j \in marked : i <= j])]_vars

\* a blocked call whose path holds a configuration of another framework,
\* then the advisory and then the soft configuration: the advisory one was
\* used
C5_Witness ==
    /\ Returned /\ res.rc = 0
    /\ ~arg.force
    /\ arg.now = Instant(1, 3, 0)
    /\ config_files = <<TextFile(NoMarkerText), TextFile(AdvisoryText),
                        TextFile(SoftText)>>
    /\ state_file # Missing
    /\ state_file.json.enforcement = Advisory
    /\ writes = <<"state">>

---------------------------------------------------------------------------
(* Claims on the schedule evaluator (under SpecSchedule).  The predicates *)
(* below read the configuration and the instant of arg.                    *)

Evaluated == res # NoResult

ArgSchedule == Get(arg.config, "schedule", EmptyDict)

\* minutes since midnight of an "HH:MM" string
MinutesOf(hhmm) == _time_to_minutes(_parse_time(hhmm))

ArgMinute == (arg.now.s % 86400) \div 60

ArgAllowed == Get(ArgSchedule, "allowed_hours", EmptyDict)
ArgStart == MinutesOf(Get(ArgAllowed, "start", HHMM(<<0, 0>>)))
ArgEndRaw == MinutesOf(Get(ArgAllowed, "end", HHMM(<<23, 59>>)))
ArgEnd == IF ArgEndRaw = 0 THEN 1440 ELSE ArgEndRaw

ArgPeriods == Get(ArgSchedule, "blocked_periods", EmptyList).v
PeriodStart(i) == MinutesOf(Item(ArgPeriods[i], "start"))
PeriodEnd(i) == MinutesOf(Item(ArgPeriods[i], "end"))

ArgHasWindDown == <<"wind_down">> \in DOMAIN ArgSchedule.v
ArgWindStart == MinutesOf(Item(Item(ArgSchedule, "wind_down"), "start"))

\* [s, e) when s < e, and otherwise the window that wraps midnight
Window(m, s, e) == IF s < e THEN s <= m /\ m < e ELSE m >= s \/ m < e

\* [s, e), wrapping midnight only when s > e
WindowStrict(m, s, e) == IF s > e THEN m >= s \/ m < e ELSE s <= m /\ m < e

OnBlockedDay ==
    LET days == Get(ArgSchedule, "blocked_days", EmptyList).v
    IN \E i \in 1..Len(days) : days[i] = DayName(arg.now)

OutsideHours == ~Window(ArgMinute, ArgStart, ArgEnd)

PeriodContains(i) == Window(ArgMinute, PeriodStart(i), PeriodEnd(i))

InSomePeriod == \E i \in 1..Len(ArgPeriods) : PeriodContains(i)

InsideWindDown == ArgHasWindDown /\ Window(ArgMinute, ArgWindStart, ArgEnd)

\* C6: the checks are applied in a total order, first applicable wins:
\* blocked day, then outside allowed hours, then blocked period, then
\* wind-down, then ok. Each condition is the evaluator's own window test.
C6_Precedence ==
    Evaluated =>
        /\ OnBlockedDay =>
              res.status = "blocked" /\ res.reason = "blocked_day"
        /\ ~OnBlockedDay /\ OutsideHours =>
              res.status = "blocked" /\ res.reason = "outside_hours"
        /\ ~OnBlockedDay /\ ~OutsideHours /\ InSomePeriod =>
              res.status = "blocked" /\ res.reason = "blocked_period"
        /\ ~OnBlockedDay /\ ~OutsideHours /\ ~InSomePeriod /\ InsideWindDown =>
              res.status = "wind_down" /\ res.reason = "None"
        /\ ~OnBlockedDay /\ ~OutsideHours /\ ~InSomePeriod /\ ~InsideWindDown =>
              res.status = "ok" /\ res.reason = "None"

\* a blocked day on which now is inside the allowed hours, inside a blocked
\* period and inside the wind-down window
C6_Witness ==
    /\ Evaluated /\ OnBlockedDay /\ res.reason = "blocked_day"
    /\ ~OutsideHours /\ InSomePeriod /\ InsideWindDown

\* the instant of arg with its seconds and microseconds cleared
ArgNowOnTheMinute == [s |-> arg.now.s - (arg.now.s % 60), us |-> 0]

\* the i-th blocked period is the only listed one that can contain now
NoOtherPeriod(i) == \A j \in 1..Len(ArgPeriods) : j # i => ~PeriodContains(j)

\* C7 as stated: every window (allowed hours, each blocked period,
\* wind-down) contains its start minute and excludes its end minute, and the
\* seconds and microseconds of now never change the verdict.
C7_HalfOpenEveryWindow ==
    Evaluated =>
        /\ ~OnBlockedDay /\ ArgMinute = ArgStart => res.reason # "outside_hours"
        /\ ~OnBlockedDay /\ ArgMinute = ArgEndRaw => res.reason = "outside_hours"
        /\ \A i \in 1..Len(ArgPeriods) :
              /\ ~OnBlockedDay /\ ~OutsideHours /\ ArgMinute = PeriodStart(i)
                    => res.reason = "blocked_period"
              /\ ArgMinute = PeriodEnd(i) /\ NoOtherPeriod(i)
                    => res.reason # "blocked_period"
        /\ ArgHasWindDown =>
              /\ res.status # "blocked" /\ ArgMinute = ArgWindStart
                    => res.status = "wind_down"
              /\ ArgMinute = ArgEndRaw => res.status # "wind_down"
        /\ res = check_schedule(arg.config, ArgNowOnTheMinute)

\* C7 amended: every window whose start and end differ contains its start
\* minute and excludes its end minute, and the seconds and microseconds of
\* now never change the verdict.
C7_HalfOpen ==
    Evaluated =>
        /\ ArgStart # ArgEndRaw =>
              /\ ~OnBlockedDay /\ ArgMinute = ArgStart
                    => res.reason # "outside_hours"
              /\ ~OnBlockedDay /\ ArgMinute = ArgEndRaw
                    => res.reason = "outside_hours"
        /\ \A i \in 1..Len(ArgPeriods) :
              PeriodStart(i) # PeriodEnd(i) =>
                  /\ ~OnBlockedDay /\ ~OutsideHours /\ ArgMinute = PeriodStart(i)
                        => res.reason = "blocked_period"
                  /\ ArgMinute = PeriodEnd(i) /\ NoOtherPeriod(i)
                        => res.reason # "blocked_period"
        /\ ArgHasWindDown /\ ArgWindStart # ArgEndRaw =>
              /\ res.status # "blocked" /\ ArgMinute = ArgWindStart
                    => res.status = "wind_down"
              /\ ArgMinute = ArgEndRaw => res.status # "wind_down"
        /\ res = check_schedule(arg.config, ArgNowOnTheMinute)

\* 59.999999 seconds into the end minute of a blocked period that starts at
\* another minute: the period does not block any more
C7_Witness ==
    /\ Evaluated /\ arg.now.s % 60 = 59 /\ arg.now.us = 999999
    /\ \E i \in 1..Len(ArgPeriods) :
          /\ PeriodStart(i) # PeriodEnd(i)
          /\ ArgMinute = PeriodEnd(i) /\ NoOtherPeriod(i)
    /\ ~OnBlockedDay /\ ~OutsideHours
    /\ res.status = "ok"

ArgAllowedIs(start, end) ==
    ArgAllowed = PyDict(Entry("start", HHMM(start)) @@ Entry("end", HHMM(end)))

\* C8: allowed-hours membership: an end of 00:00 counts as minute 1440; the
\* window is [start, end) if start < end and wraps midnight otherwise (inside
\* iff m >= start or m < end). For 22:00-06:00, 23:00 and 03:00 are inside and
\* 12:00 is outside; for 09:00-00:00, 09:00..23:59 are inside and 00:00 and
\* 08:59 are outside.
C8_AllowedHours ==
    Evaluated /\ ~OnBlockedDay =>
        LET m == ArgMinute
            end == IF ArgEndRaw = 0 THEN 1440 ELSE ArgEndRaw
            inside == IF ArgStart < end
                      THEN ArgStart <= m /\ m < end
                      ELSE m >= ArgStart \/ m < end
            outside == res.status = "blocked" /\ res.reason = "outside_hours"
        IN /\ outside <=> ~inside
           /\ ArgAllowedIs(<<22, 0>>, <<6, 0>>) =>
                 /\ m \in {23 * 60, 3 * 60} => ~outside
                 /\ m = 12 * 60 => outside
           /\ ArgAllowedIs(<<9, 0>>, <<0, 0>>) =>
                 /\ m \in (9 * 60)..(23 * 60 + 59) => ~outside
                 /\ m \in {0, 8 * 60 + 59} => outside

\* 03:00 in the overnight window 22:00-06:00 is not outside the hours
C8_Witness ==
    /\ Evaluated /\ ~OnBlockedDay
    /\ ArgAllowedIs(<<22, 0>>, <<6, 0>>) /\ ArgMinute = 3 * 60
    /\ res.reason # "outside_hours"

\* membership of now in the i-th blocked period: [start, end) when
\* start < end, wrapping midnight when start > end; the evaluator's else
\* branch makes a period whose start is its end contain every minute
ClaimedPeriodContains(i) ==
    LET m == ArgMinute
        start == PeriodStart(i)
        end == PeriodEnd(i)
    IN IF start < end THEN start <= m /\ m < end
       ELSE IF start > end THEN m >= start \/ m < end
       ELSE TRUE

\* C9: when the checks before it pass, the verdict is blocked/blocked_period
\* exactly when some listed period contains now, and period_name is then the
\* name of the first such period in listed order ("unknown" when it has
\* none); a period with start > end wraps midnight and excludes its end.
C9_FirstPeriodWins ==
    Evaluated /\ ~OnBlockedDay /\ ~OutsideHours =>
        LET hits == {i \in 1..Len(ArgPeriods) : ClaimedPeriodContains(i)}
        IN IF hits = {} THEN res.reason # "blocked_period"
           ELSE LET first == CHOOSE i \in hits : \A j \in hits : i <= j
                IN res = Verdict("blocked", "blocked_period",
                                 Get(ArgPeriods[first], "name",
                                     PyStr(<<"unknown">>)))

\* now lies in both listed periods, family then night (which wraps), and the
\* verdict names family
C9_Witness ==
    /\ Evaluated /\ ~OnBlockedDay /\ ~OutsideHours
    /\ Len(ArgPeriods) = 2
    /\ ClaimedPeriodContains(1) /\ ClaimedPeriodContains(2)
    /\ Get(ArgPeriods[1], "name", None) = PyStr(<<"family">>)
    /\ Get(ArgPeriods[2], "name", None) = PyStr(<<"night">>)
    /\ res.period_name = PyStr(<<"family">>)

\* C10: with a wind-down start configured and no blocking check applying,
\* the verdict is wind_down exactly when now is in [wind_start,
\* end_of_allowed), a window that wraps midnight only when wind_start >
\* end_of_allowed (00:00 counted as 1440).
C10_WindDownWindow ==
    Evaluated /\ ArgHasWindDown /\ res.status # "blocked" =>
        (res.status = "wind_down"
            <=> WindowStrict(ArgMinute, ArgWindStart, ArgEnd))

---------------------------------------------------------------------------
(* The break check as a pure function: the ledgers, the limits and the     *)
(* instants check_break is evaluated on.  Times are minutes of 1970-01-02. *)

\* the naive datetime m minutes and sec seconds into the day, and its ISO
\* text as the tests write it
Minute(m, sec) == [s |-> 86400 + m * 60 + sec, us |-> 0]
IsoMinute(m) == IsoFormat(Minute(m, 0), FALSE, 0)

\* a ledger record with the fields of extra besides those start_session
\* writes
LedgerRecord(id, start, end, extra) ==
    PyDict(Entry("id", PyStr(<<id>>)) @@ Entry("start_time", start)
           @@ Entry("end_time", end) @@ Entry("project_dir", PyStr(<<"/tmp">>))
           @@ Entry("forced", PyBool(FALSE)) @@ extra)

Closed(id, start, end) == LedgerRecord(id, IsoMinute(start), IsoMinute(end), <<>>)
Open(id, start) == LedgerRecord(id, IsoMinute(start), None, <<>>)

\* closed sessions of 80 and 70 minutes 5 minutes apart, of 120 and 63
\* minutes 32 minutes apart, all done by 11:35; a session of one minute
\* and one of four minutes that ran during the 70 minutes;
\* the 70 minutes with a last activity at 11:20; a session of 693 minutes
\* with 88 minutes of work and one of 100 minutes with 160 minutes of work;
\* a record whose start_time does not parse and one whose last_activity
\* does not; sessions open since 07:38, 11:30, 11:38 and 12:00
ClosedPool ==
    {Closed("s80", 540, 620), Closed("s70", 625, 695),
     Closed("s120", 480, 600), Closed("s63", 632, 695),
     Closed("short", 696, 697), Closed("brief", 626, 630),
     LedgerRecord("la", IsoMinute(625), IsoMinute(695),
                  Entry("last_activity", IsoMinute(680))),
     LedgerRecord("wsb88", IsoMinute(2), IsoMinute(695),
                  Entry("last_activity", IsoMinute(694))
                  @@ Entry("work_since_break", PyInt(88))),
     LedgerRecord("wsb160", IsoMinute(595), IsoMinute(695),
                  Entry("work_since_break", PyInt(160))),
     LedgerRecord("bad", PyStr(<<"garbage">>), IsoMinute(695), <<>>),
     LedgerRecord("labad", IsoMinute(540), IsoMinute(620),
                  Entry("last_activity", PyStr(<<"garbage">>)))}

\* the last one has no end_time at all
OpenPool ==
    {Open("old", 458), Open("now", 698), Open("future", 720),
     PyDict(Entry("id", PyStr(<<"noend">>)) @@ Entry("start_time", IsoMinute(690)))}

RecordPool == ClosedPool \cup OpenPool

MaxLedger == 3

\* start_session appends: the records that parse are in the order of
\* their start_time
InStartOrder(l) ==
    \A i, j \in 1..Len(l) :
        (/\ i < j
         /\ IsIso(Item(l[i], "start_time")) /\ IsIso(Item(l[j], "start_time")))
        => Item(l[i], "start_time").iso.s <= Item(l[j], "start_time").iso.s

Ledgers ==
    UNION {{l \in [1..n -> RecordPool] :
               /\ \A i, j \in 1..n : l[i] = l[j] => i = j
               /\ InStartOrder(l)} : n \in 0..MaxLedger}

\* 11:37:30, 11:38, 11:49:30 and 11:50
BreakNows == {Minute(697, 30), Minute(698, 0), Minute(709, 30), Minute(710, 0)}

\* min_break_minutes and max_continuous_minutes
BreakLimits == {<<15, 150>>, <<30, 60>>}

InitBreak ==
    /\ \E l \in Ledgers : log_file = JsonFile(PyDict(Entry("sessions", PyList(l))))
    /\ arg \in [now : BreakNows, limits : BreakLimits]
    /\ res = NoResult
    /\ config_files = <<>>
    /\ state_file = Missing
    /\ markers = {}
    /\ sentinels = <<>>
    /\ stderr = <<>>
    /\ writes = <<>>
    /\ clock = [s |-> 0, us |-> 0]

EvalBreak ==
    /\ res = NoResult
    /\ res' = check_break(log_file, arg.limits[1], arg.now, arg.limits[2])
    /\ UNCHANGED <<arg, config_files, state_file, log_file, markers, sentinels,
                   stderr, writes, clock>>

NextBreak == EvalBreak

SpecBreak == InitBreak /\ [][NextBreak]_vars

---------------------------------------------------------------------------
(* Claims on the break check (under SpecBreak).  The predicates below read *)
(* the ledger from log_file and the call from arg.                         *)

BreakEvaluated == res # NoResult

ArgRecords == Item(log_file.json, "sessions").v
ArgMinBreak == arg.limits[1]
ArgMaxContinuous == arg.limits[2]

\* the datetime a is earlier than b, and the datetime n seconds after a
Earlier(a, b) == a.s < b.s \/ (a.s = b.s /\ a.us < b.us)
After(a, n) == [s |-> a.s + n, us |-> a.us]

\* the record is open: its end_time is null or absent
IsOpen(r) == Get(r, "end_time", None) = None

\* the age of the open record at now is in [0, 4h)
IsActive(r) ==
    /\ IsOpen(r)
    /\ IsIso(Get(r, "start_time", None))
    /\ LET start == Item(r, "start_time").iso
       IN ~Earlier(arg.now, start) /\ Earlier(arg.now, After(start, 4 * 3600))

SomeActive == \E i \in 1..Len(ArgRecords) : IsActive(ArgRecords[i])

\* the ledger without its open records
ClosedOnly ==
    JsonFile(PyDict(Entry("sessions",
        PyList(SelectSeq(ArgRecords, LAMBDA r : ~IsOpen(r))))))

\* C11: check_break returns ok with no minutes left whenever some open
\* record has an age in [0, 4h), however much closed work the ledger holds;
\* open records that are future-dated or 4 hours old or more do not bypass
\* the check: the result is the one of the closed records alone.
C11_ActiveSessionBypass ==
    BreakEvaluated =>
        IF SomeActive
        THEN res = BreakResult(TRUE, 0)
        ELSE res = check_break(ClosedOnly, ArgMinBreak, arg.now, ArgMaxContinuous)

\* 150 minutes of closed work done 3 minutes ago, which alone ask for a
\* break, and a session open since now: ok
C11_Witness ==
    /\ BreakEvaluated /\ res.ok
    /\ SomeActive
    /\ ~check_break(ClosedOnly, ArgMinBreak, arg.now, ArgMaxContinuous).ok

\* the record is closed and its times parse, so that the walk does not
\* skip it
Qualifies(r) ==
    /\ IsIso(Get(r, "end_time", None))
    /\ IsIso(Get(r, "start_time", None))
    /\ LET activity == Get(r, "last_activity", None)
       IN Nonempty(activity) => activity.t = "str"

StartOf(r) == Item(r, "start_time").iso
EndOf(r) == Item(r, "end_time").iso

\* the interaction anchor: last_activity if present and parseable, else
\* end_time
AnchorOf(r) ==
    IF IsIso(Get(r, "last_activity", None))
    THEN Item(r, "last_activity").iso
    ELSE EndOf(r)

\* the records of the ledger that qualify, by their place in it
Qualifying == {i \in 1..Len(ArgRecords) : Qualifies(ArgRecords[i])}

\* the record visited before i: the nearest later one that qualifies
HasLater(i) == \E j \in Qualifying : j > i
LaterOf(i) == CHOOSE j \in Qualifying : j > i /\ \A k \in Qualifying : k > i => j <= k

\* no real break lies between the record and the one visited before it
Linked(i) ==
    HasLater(i) =>
        Earlier(StartOf(ArgRecords[LaterOf(i)]),
                After(AnchorOf(ArgRecords[i]), ArgMinBreak * 60))

\* the chain of most recent records not separated by a real break, and
\* those of them that last min_break_minutes or more
Chain == {i \in Qualifying : \A j \in Qualifying : j >= i => Linked(j)}
Counted ==
    {i \in Chain : ~Earlier(EndOf(ArgRecords[i]),
                            After(StartOf(ArgRecords[i]), ArgMinBreak * 60))}

\* the work of the records of S in seconds (their times are whole seconds)
RECURSIVE WorkSeconds(_)
WorkSeconds(S) ==
    IF S = {} THEN 0
    ELSE LET i == CHOOSE x \in S : TRUE
         IN EndOf(ArgRecords[i]).s - StartOf(ArgRecords[i]).s
            + WorkSeconds(S \ {i})

\* the anchor of the most recent counted record
LastAnchor == AnchorOf(ArgRecords[CHOOSE i \in Counted : \A j \in Counted : j <= i])

\* no record of the ledger carries a work_since_break field (those that do
\* are the matter of C14)
NoWorkField ==
    \A i \in 1..Len(ArgRecords) : <<"work_since_break">> \notin DOMAIN ArgRecords[i].v

\* the ledger of the scenario: 80 and 70 minutes with a gap of 5
Scenario8070 ==
    log_file = JsonFile(PyDict(Entry("sessions",
        PyList(<<Closed("s80", 540, 620), Closed("s70", 625, 695)>>))))

\* C12: with no active open record, check_break asks for a break exactly
\* when the work accumulated over the chain of most recent closed records
\* not separated by a real break is max_continuous_minutes or more and less
\* than min_break_minutes have elapsed from the anchor of the most recent
\* counted record to now; otherwise it returns ok with no minutes left.
\* 80 and 70 minutes 5 minutes apart, limits 15 and 150, 3 minutes after
\* the end: a break is required.
C12_BreakRequiredExactly ==
    BreakEvaluated /\ ~SomeActive /\ NoWorkField =>
        /\ ~res.ok <=> (/\ Counted # {}
                        /\ WorkSeconds(Counted) >= ArgMaxContinuous * 60
                        /\ Earlier(arg.now, After(LastAnchor, ArgMinBreak * 60)))
        /\ res.ok => res.minutes_left = 0
        /\ (Scenario8070 /\ arg.now = Minute(698, 0) /\ arg.limits = <<15, 150>>)
              => ~res.ok

\* the scenario: 150 minutes of work, checked 3 minutes after the last
\* anchor, ask for a break
C12_Witness ==
    /\ BreakEvaluated /\ ~res.ok
    /\ Scenario8070 /\ arg.now = Minute(698, 0) /\ arg.limits = <<15, 150>>
    /\ WorkSeconds(Counted) = 150 * 60

\* the walk of check_break over the ledger
ArgWalk == BackwardWalk(ArgRecords, Len(ArgRecords), WalkStart, ArgMinBreak)

\* the ledger of the scenario: 120 minutes, a gap of 32, then 63 minutes
Scenario12063 ==
    log_file = JsonFile(PyDict(Entry("sessions",
        PyList(<<Closed("s120", 480, 600), Closed("s63", 632, 695)>>))))

\* C13: the walk stops accumulating at the first record whose anchor
\* (last_activity if present and parseable, else end_time) precedes the
\* start of the record visited before it by min_break_minutes or more: the
\* cumulative work is that of the counted records of the chain, and that
\* record and every older one add nothing. 120 minutes, a gap of 32, then
\* 63 minutes, limits 15 and 150: only the 63 minutes count and the result
\* is ok.
C13_GapStopsAccumulation ==
    BreakEvaluated /\ NoWorkField =>
        /\ ArgWalk.cumulative_work = [s |-> WorkSeconds(Counted), us |-> 0]
        /\ \A i \in Qualifying :
              ~Linked(i) => \A j \in 1..i : j \notin Counted
        /\ (Scenario12063 /\ arg.limits = <<15, 150>>)
              => ArgWalk.cumulative_work.s = 63 * 60 /\ res.ok

\* the scenario, 3 minutes after the 63 minutes: the 120 minutes lie
\* behind a real break and the result is ok
C13_Witness ==
    /\ BreakEvaluated /\ res.ok
    /\ Scenario12063 /\ arg.now = Minute(698, 0) /\ arg.limits = <<15, 150>>
    /\ ~Linked(1) /\ Counted = {2}

\* the work of a record as C14 has it: its work_since_break minutes when
\* it carries the field, else its wall-clock duration
ClaimedWork(r) ==
    IF <<"work_since_break">> \in DOMAIN r.v
    THEN Item(r, "work_since_break").v * 60
    ELSE EndOf(r).s - StartOf(r).s

RECURSIVE ClaimedWorkSeconds(_)
ClaimedWorkSeconds(S) ==
    IF S = {} THEN 0
    ELSE LET i == CHOOSE x \in S : TRUE
         IN ClaimedWork(ArgRecords[i]) + ClaimedWorkSeconds(S \ {i})

\* the ledger holds the one session of 693 minutes with 88 minutes of work
ScenarioLongSession ==
    /\ Len(ArgRecords) = 1
    /\ Get(ArgRecords[1], "id", None) = PyStr(<<"wsb88">>)

\* C14: for a closed record that carries a work_since_break field,
\* check_break counts that value, not end_time - start_time, toward the
\* cumulative work: a break is required exactly when the work so counted
\* reaches max_continuous_minutes and the last anchor is less than
\* min_break_minutes ago; a session of 693 minutes with 88 minutes of work
\* and max 150 is ok.
C14_WorkSinceBreakCounts ==
    BreakEvaluated /\ ~SomeActive =>
        /\ ~res.ok <=> (/\ Counted # {}
                        /\ ClaimedWorkSeconds(Counted) >= ArgMaxContinuous * 60
                        /\ Earlier(arg.now, After(LastAnchor, ArgMinBreak * 60)))
        /\ (ScenarioLongSession /\ arg.limits = <<15, 150>>) => res.ok

\* the session of 693 minutes with 88 minutes of work, checked 4 minutes
\* after its last activity with max 150: a break is required
C14_Witness ==
    /\ BreakEvaluated /\ ~res.ok
    /\ ScenarioLongSession /\ arg.limits = <<15, 150>>
    /\ arg.now = Minute(698, 0)

\* the latest of the times that parse in the records of the ledger
LatestTime ==
    LET times == {x.iso : x \in {Get(ArgRecords[i], k, None) :
                                    i \in 1..Len(ArgRecords),
                                    k \in {"start_time", "end_time", "last_activity"}}
                                \cap {x \in {Get(ArgRecords[i], k, None) :
                                                i \in 1..Len(ArgRecords),
                                                k \in {"start_time", "end_time",
                                                       "last_activity"}} : IsIso(x)}}
    IN CHOOSE t \in times : \A u \in times : ~Earlier(t, u)

\* closed records of one minute, from 11:36 on
ShortRecords == {Closed("x1", 696, 697), Closed("x2", 697, 698)}

\* the runs of short records that start after every record of the ledger,
\* one after the other, and end no later than now
ShortAppends ==
    {a \in {<<Closed("x1", 696, 697)>>, <<Closed("x2", 697, 698)>>,
            <<Closed("x1", 696, 697), Closed("x2", 697, 698)>>} :
        /\ Earlier(LatestTime, StartOf(a[1]))
        /\ ~Earlier(arg.now, EndOf(a[Len(a)]))
        /\ \A i \in 1..Len(a) :
              Earlier(EndOf(a[i]), After(StartOf(a[i]), ArgMinBreak * 60))}

\* the ledger with the records of a appended
AppendedLog(a) == JsonFile(PyDict(Entry("sessions", PyList(ArgRecords \o a))))

\* C15: closed records shorter than min_break_minutes cannot mask a needed
\* break: when check_break asks for a break at now, it still does so at the
\* same now after any number of such records, starting after the last
\* record and ending no later than now, are appended to the ledger.
C15_ShortRecordsCannotMask ==
    BreakEvaluated /\ ~res.ok =>
        \A a \in ShortAppends :
            ~check_break(AppendedLog(a), ArgMinBreak, arg.now, ArgMaxContinuous).ok

\* a break is required after 150 minutes of work during which another
\* session ran for four minutes, and one short record appended afterwards
\* makes check_break return ok
C15_Witness ==
    /\ BreakEvaluated /\ ~res.ok
    /\ arg.now = Minute(698, 0) /\ arg.limits = <<15, 150>>
    /\ ArgRecords = <<Closed("s80", 540, 620), Closed("s70", 625, 695),
                      Closed("brief", 626, 630)>>
    /\ <<Closed("x1", 696, 697)>> \in ShortAppends
    /\ check_break(AppendedLog(<<Closed("x1", 696, 697)>>), ArgMinBreak, arg.now,
                   ArgMaxContinuous).ok

\* the most recent interaction anchor check_break measures elapsed from
ArgAnchor == BackwardWalk(ArgRecords, Len(ArgRecords), WalkStart, ArgMinBreak).last_interaction

\* ceil(min_break_minutes - elapsed), elapsed from the anchor to now in
\* minutes with fractions at second resolution
CeilMinutesLeft == (ArgMinBreak * 60 - (arg.now.s - ArgAnchor.s) + 59) \div 60

\* C16: when check_break returns ok=false, minutes_left is
\* ceil(min_break_minutes - elapsed), with elapsed the minutes from the most
\* recent interaction anchor to now, hence 1 <= minutes_left <=
\* min_break_minutes; ok=true always comes with minutes_left = 0.
C16_MinutesLeftIsCeiling ==
    BreakEvaluated =>
        IF res.ok THEN res.minutes_left = 0
        ELSE /\ res.minutes_left = CeilMinutesLeft
             /\ 1 <= res.minutes_left /\ res.minutes_left <= ArgMinBreak

\* a break is required with 30 seconds of it left, and check_break returns
\* minutes_left = 0 with ok=false
C16_Witness ==
    /\ BreakEvaluated /\ ~res.ok
    /\ Scenario8070 /\ arg.now = Minute(709, 30) /\ arg.limits = <<15, 150>>
    /\ CeilMinutesLeft = 1
    /\ res.minutes_left = 0

---------------------------------------------------------------------------
(* The session operations.  A session is registered by start_session,     *)
(* its activity is noted in a sentinel file by touch_session (and by the   *)
(* hooks of the host, which write the same files), and end_session closes  *)
(* its record.  A sentinel file is a text, its body and whether a newline  *)
(* follows it, or a file whose bytes do not decode.                        *)

SentinelText(body, nl) == [t |-> "text", body |-> body, nl |-> nl]
Undecodable == [t |-> "undecodable"]

\* GUARD_DIR / f".activity.{session_id}"
ActivityFile(session_id) == <<"activity", session_id>>

\* GUARD_DIR / f".work-since-break.{session_id}"
WorkSinceBreakFile(session_id) == <<"work-since-break", session_id>>

\* path.exists(), path.read_text().strip() and the files after path.unlink()
Exists(sents, path) == path \in DOMAIN sents
ReadTextRaises(sents, path) == sents[path].t # "text"
ReadTextStrip(sents, path) == sents[path].body
Unlink(sents, path) == [p \in DOMAIN sents \ {path} |-> sents[p]]

\* the UTC offset of the local zone, in seconds
LocalUtcOffset == 3600

\* datetime.now().astimezone().isoformat() when the clock reads clk
NowLocalIso(clk) ==
    IsoFormat([s |-> clk.s + LocalUtcOffset, us |-> clk.us], TRUE, LocalUtcOffset)

\* mutant: the new record is put before the others
start_session_Prepend(file, project_dir, forced, sid, clk) ==
    LET data == _load_log(file)
        record == PyDict(Entry("id", sid)
                         @@ Entry("start_time", NowLocalIso(clk))
                         @@ Entry("end_time", None)
                         @@ Entry("project_dir", project_dir)
                         @@ Entry("forced", PyBool(forced)))
    IN IF Item(data, "sessions").t # "list"
       THEN [log |-> file, sid |-> sid, exc |-> AttributeError]
       ELSE [log |-> _save_log(SetItem(data, "sessions",
                        PyList(<<record>> \o Item(data, "sessions").v))),
             sid |-> sid, exc |-> None]

\* start_session(log_path, project_dir, forced) when uuid4 gives sid:
\* the log file after the call and the id returned
start_session(file, project_dir, forced, sid, clk) ==
    LET data == _load_log(file)
        record == PyDict(Entry("id", sid)
                         @@ Entry("start_time", NowLocalIso(clk))
                         @@ Entry("end_time", None)
                         @@ Entry("project_dir", project_dir)
                         @@ Entry("forced", PyBool(forced)))
    \* data["sessions"].append: a list has it, nothing else JSON gives
    IN IF Item(data, "sessions").t # "list"
       THEN [log |-> file, sid |-> sid, exc |-> AttributeError]
       ELSE [log |-> _save_log(SetItem(data, "sessions",
                        PyList(Append(Item(data, "sessions").v, record)))),
             sid |-> sid, exc |-> None]

\* mutant: an absent or unread sentinel leaves the record without
\* last_activity
EndRecord_NoFallback(s, sents, session_id, clk) ==
    LET ended == SetItem(s, "end_time", NowLocalIso(clk))
        activity_file == ActivityFile(session_id)
    IN [rec |-> IF Exists(sents, activity_file)
                   /\ ~ReadTextRaises(sents, activity_file)
                THEN SetItem(ended, "last_activity",
                             ReadTextStrip(sents, activity_file))
                ELSE ended,
        sentinels |-> Unlink(sents, activity_file)]

\* the body of the loop of end_session on the record s it closes: the
\* record and the sentinel files after it
EndRecord(s, sents, session_id, clk) ==
    LET ended == SetItem(s, "end_time", NowLocalIso(clk))
        activity_file == ActivityFile(session_id)
        read == IF Exists(sents, activity_file)
                   /\ ~ReadTextRaises(sents, activity_file)
                THEN SetItem(ended, "last_activity",
                             ReadTextStrip(sents, activity_file))
                ELSE ended
    IN [rec |-> IF ~Nonempty(Get(read, "last_activity", None))
                THEN SetItem(read, "last_activity", Item(read, "end_time"))
                ELSE read,
        sentinels |-> Unlink(sents, activity_file)]

\* the test of line 400 on the record s raises: s is no mapping
\* (TypeError), has no id, or has the id and no end_time (KeyError)
MatchRaises(s, session_id) ==
    IF s.t # "dict" THEN TypeError
    ELSE IF <<"id">> \notin DOMAIN s.v THEN KeyError
    ELSE IF Item(s, "id") = session_id /\ <<"end_time">> \notin DOMAIN s.v
    THEN KeyError
    ELSE None

\* the positions of the records the test of line 400 raises on, and of
\* those it selects
RaisingAt(sessions, session_id) ==
    {i \in 1..Len(sessions) : MatchRaises(sessions[i], session_id) # None}
OpenAt(sessions, session_id) ==
    {i \in 1..Len(sessions) :
        /\ MatchRaises(sessions[i], session_id) = None
        /\ Item(sessions[i], "id") = session_id
        /\ Item(sessions[i], "end_time") = None}

\* end_session when its loop closes the record at position i, or no record
\* when i = 0; an exception at a record before that one leaves the call
\* with nothing done
EndAt(file, data, sessions, sents, marks, session_id, clk, i) ==
    LET stop == IF i = 0 THEN Len(sessions) + 1 ELSE i
        raising == {j \in RaisingAt(sessions, session_id) : j < stop}
        Closing(e) ==
            [log |-> _save_log(SetItem(data, "sessions",
                        PyList([sessions EXCEPT ![i] = e.rec]))),
             sentinels |-> e.sentinels,
             markers |-> _clean_notification_markers(marks, session_id),
             exc |-> None]
    IN IF raising # {}
       THEN [log |-> file, sentinels |-> sents, markers |-> marks,
             exc |-> MatchRaises(sessions[CHOOSE j \in raising :
                                              \A k \in raising : j <= k],
                                 session_id)]
       ELSE IF i = 0
       THEN [log |-> _save_log(data), sentinels |-> sents,
             markers |-> _clean_notification_markers(marks, session_id),
             exc |-> None]
       ELSE Closing(EndRecord(sessions[i], sents, session_id, clk))

\* end_session on a sessions entry that is no list: nothing to do when it
\* is an empty string or mapping, a TypeError otherwise
EndNoList(file, data, sents, marks, session_id) ==
    IF Item(data, "sessions").t \in {"str", "dict"}
       /\ ~Truthy(Item(data, "sessions"))
    THEN [log |-> _save_log(data), sentinels |-> sents,
          markers |-> _clean_notification_markers(marks, session_id),
          exc |-> None]
    ELSE [log |-> file, sentinels |-> sents, markers |-> marks,
          exc |-> TypeError]

\* mutant: the last record of the ledger with that id and a null end_time
\* is the one closed
end_session_LastOpen(file, sents, marks, session_id, clk) ==
    LET data == _load_log(file)
        sessions == Item(data, "sessions").v
        open == OpenAt(sessions, session_id)
    IN IF Item(data, "sessions").t # "list"
       THEN EndNoList(file, data, sents, marks, session_id)
       ELSE EndAt(file, data, sessions, sents, marks, session_id, clk,
                  IF open = {} THEN 0
                  ELSE CHOOSE i \in open : \A j \in open : i >= j)

\* end_session(log_path, session_id): the log file, the sentinel files and
\* the markers after the call, and the exception that left it, None when
\* none did.  The loop stops at the first record of the ledger with that
\* id and a null end_time.
end_session(file, sents, marks, session_id, clk) ==
    LET data == _load_log(file)
        sessions == Item(data, "sessions").v
        open == OpenAt(sessions, session_id)
    IN IF Item(data, "sessions").t # "list"
       THEN EndNoList(file, data, sents, marks, session_id)
       ELSE EndAt(file, data, sessions, sents, marks, session_id, clk,
                  IF open = {} THEN 0
                  ELSE CHOOSE i \in open : \A j \in open : i <= j)

\* mutant: the sentinel carries the time of the epoch
touch_session_Epoch(sents, session_id, clk) ==
    (ActivityFile(session_id) :> SentinelText(NowLocalIso([s |-> 0, us |-> 0]), TRUE))
    @@ sents

\* touch_session(log_path, session_id): the sentinel files after the call
touch_session(sents, session_id, clk) ==
    (ActivityFile(session_id) :> SentinelText(NowLocalIso(clk), TRUE)) @@ sents

---------------------------------------------------------------------------
(* The life of the ledger: sessions are started, touched and ended, the    *)
(* hooks of the host write sentinel files for the sessions of the ledger,  *)
(* and the clock advances.  arg is the sequence of the calls made so far   *)
(* and res what the last one returned.                                     *)

MaxCalls == 4
MaxTicks == 2

\* 09:00 UTC on 1970-01-02
FirstReading == Instant(1, 9, 0)

Call(op, id) == [op |-> op, id |-> id]

\* what a hook leaves for the session: an activity sentinel with the local
\* time without offset as its text, an empty one, one that does not decode,
\* or a work-since-break sentinel of 88 minutes
HookFiles(session_id) ==
    {<<ActivityFile(session_id),
       SentinelText(IsoFormat([s |-> clock.s + LocalUtcOffset, us |-> clock.us],
                              FALSE, 0), TRUE)>>,
     <<ActivityFile(session_id), SentinelText(PyStr(<<>>), FALSE)>>,
     <<ActivityFile(session_id), Undecodable>>,
     <<WorkSinceBreakFile(session_id), SentinelText(PyStr(<<"88">>), TRUE)>>}

\* the ids of the records of the ledger
LedgerIds ==
    LET sessions == Item(_load_log(log_file), "sessions").v
    IN {Item(sessions[i], "id") : i \in 1..Len(sessions)}

InitSession ==
    /\ arg = <<>>
    /\ res = NoResult
    /\ config_files = <<>>
    /\ state_file = Missing
    /\ log_file \in {Missing, JsonFile(InvalidJson), Ledger(<<>>)}
    /\ markers = {}
    /\ sentinels = <<>>
    /\ stderr = <<>>
    /\ writes = <<>>
    /\ clock = FirstReading

StartSession ==
    /\ Len(arg) < MaxCalls
    /\ \E sid \in SessionIds :
          LET o == start_session(log_file, PyStr(<<"/tmp">>), FALSE, sid, clock)
          IN /\ log_file' = o.log
             /\ res' = (IF o.exc # None THEN o.exc ELSE o.sid)
             /\ writes' = (IF o.exc # None THEN writes ELSE Append(writes, "log"))
             /\ arg' = Append(arg, Call("start_session", sid))
    /\ UNCHANGED <<config_files, state_file, markers, sentinels, stderr, clock>>

TouchSession ==
    /\ Len(arg) < MaxCalls
    /\ \E session_id \in SessionIds :
          /\ sentinels' = touch_session(sentinels, session_id, clock)
          /\ arg' = Append(arg, Call("touch_session", session_id))
    /\ res' = None
    /\ UNCHANGED <<config_files, state_file, log_file, markers, stderr, writes,
                   clock>>

EndSession ==
    /\ Len(arg) < MaxCalls
    /\ \E session_id \in SessionIds :
          LET o == end_session(log_file, sentinels, markers, session_id, clock)
          IN /\ log_file' = o.log
             /\ sentinels' = o.sentinels
             /\ markers' = o.markers
             /\ res' = o.exc
             /\ writes' = (IF o.exc # None THEN writes ELSE Append(writes, "log"))
             /\ arg' = Append(arg, Call("end_session", session_id))
    /\ UNCHANGED <<config_files, state_file, stderr, clock>>

HookWrites ==
    /\ Len(arg) < MaxCalls
    /\ \E session_id \in LedgerIds :
          \E f \in HookFiles(session_id) :
             /\ sentinels' = (f[1] :> f[2]) @@ sentinels
             /\ arg' = Append(arg, Call("hook", session_id))
    /\ UNCHANGED <<res, config_files, state_file, log_file, markers, stderr,
                   writes, clock>>

Tick ==
    /\ clock.s < FirstReading.s + MaxTicks * 60
    /\ clock' = [clock EXCEPT !.s = @ + 60]
    /\ UNCHANGED <<arg, res, config_files, state_file, log_file, markers,
                   sentinels, stderr, writes>>

NextSession == StartSession \/ TouchSession \/ EndSession \/ HookWrites \/ Tick

SpecSession == InitSession /\ [][NextSession]_vars

---------------------------------------------------------------------------
(* Claims on the session operations (under SpecSession) *)

\* the records of the ledger as _load_log reads it
LedgerRecords == Item(_load_log(log_file), "sessions").v

\* the instant an ISO text with an offset names
InstantOf(x) == [s |-> x.iso.s - x.off, us |-> x.iso.us]

\* the calls made were start_session, touch_session any number of times
\* for the id it returned, and end_session for that id
RoundTrip ==
    /\ Len(arg) >= 2
    /\ arg[1].op = "start_session"
    /\ arg[Len(arg)].op = "end_session"
    /\ \A i \in 2..(Len(arg) - 1) : arg[i].op = "touch_session"
    /\ \A i \in 2..Len(arg) : arg[i].id = arg[1].id

\* C17: start_session on an empty ledger, then any number of touch_session
\* calls for the id it returned, then end_session for that id, leave
\* exactly one record, its end_time not null and its last_activity no
\* earlier than its start_time.
C17_RoundTrip ==
    RoundTrip =>
        /\ Len(LedgerRecords) = 1
        /\ Item(LedgerRecords[1], "id") = arg[1].id
        /\ Item(LedgerRecords[1], "end_time") # None
        /\ IsIso(Get(LedgerRecords[1], "last_activity", None))
        /\ ~Earlier(InstantOf(Item(LedgerRecords[1], "last_activity")),
                    InstantOf(Item(LedgerRecords[1], "start_time")))

\* a round trip with two touches, the last one before the end, so that
\* last_activity is later than start_time and earlier than end_time
C17_Witness ==
    /\ RoundTrip /\ Len(arg) = 4
    /\ Len(LedgerRecords) = 1
    /\ Earlier(InstantOf(Item(LedgerRecords[1], "start_time")),
               InstantOf(Item(LedgerRecords[1], "last_activity")))
    /\ Earlier(InstantOf(Item(LedgerRecords[1], "last_activity")),
               InstantOf(Item(LedgerRecords[1], "end_time")))

\* the step is a call of end_session(id)
EndSessionCalled(id) == arg' = Append(arg, Call("end_session", id))

\* the positions of the open records with that id before the step
OpenWith(id) ==
    {i \in 1..Len(LedgerRecords) :
        /\ Item(LedgerRecords[i], "id") = id
        /\ Item(LedgerRecords[i], "end_time") = None}

\* an activity sentinel for id exists, decodes and is not empty
ActivityRecorded(id) ==
    /\ Exists(sentinels, ActivityFile(id))
    /\ sentinels[ActivityFile(id)].t = "text"
    /\ Nonempty(sentinels[ActivityFile(id)].body)

\* C18: when end_session(id) closes an open record and an activity
\* sentinel for id exists, the record's last_activity becomes the
\* sentinel's timestamp and the sentinel is deleted; when there is no
\* sentinel, or it is empty or unreadable, last_activity is the end_time
\* that was just set.
C18_ActivitySentinel ==
    [][\A id \in SessionIds :
          EndSessionCalled(id) /\ OpenWith(id) # {} =>
              \E i \in OpenWith(id) :
                 /\ Item(LedgerRecords[i], "end_time")' # None
                 /\ IF ActivityRecorded(id)
                    THEN /\ Get(LedgerRecords[i], "last_activity", None)'
                               = sentinels[ActivityFile(id)].body
                         /\ ~Exists(sentinels', ActivityFile(id))
                    ELSE Get(LedgerRecords[i], "last_activity", None)'
                            = Item(LedgerRecords[i], "end_time")']_vars

\* end_session has just closed a record with the timestamp a hook left,
\* which is not its end_time, and the sentinel is gone
C18_Witness ==
    /\ Len(arg) >= 3 /\ arg[Len(arg)].op = "end_session"
    /\ arg[Len(arg) - 1].op = "hook"
    /\ \E i \in 1..Len(LedgerRecords) :
          /\ Item(LedgerRecords[i], "id") = arg[Len(arg)].id
          /\ Item(LedgerRecords[i], "end_time") # None
          /\ ~Item(LedgerRecords[i], "last_activity").aware
          /\ Item(LedgerRecords[i], "last_activity") # Item(LedgerRecords[i], "end_time")
    /\ ~Exists(sentinels, ActivityFile(arg[Len(arg)].id))

\* int(text) for the text a hook leaves in a work-since-break sentinel
SentinelMinutes(body) == IF body = PyStr(<<"88">>) THEN PyInt(88) ELSE None

\* C19: when end_session(id) closes a record and a work-since-break
\* sentinel for id exists, its content is stored as integer minutes in the
\* record's work_since_break field and the sentinel is deleted; when no
\* such sentinel exists, the record gets no work_since_break field.
C19_WorkSinceBreakSentinel ==
    [][\A id \in SessionIds :
          EndSessionCalled(id) /\ OpenWith(id) # {} =>
              \E i \in OpenWith(id) :
                 /\ Item(LedgerRecords[i], "end_time")' # None
                 /\ IF Exists(sentinels, WorkSinceBreakFile(id))
                    THEN /\ Get(LedgerRecords[i], "work_since_break", None)'
                               = SentinelMinutes(sentinels[WorkSinceBreakFile(id)].body)
                         /\ ~Exists(sentinels', WorkSinceBreakFile(id))
                    ELSE <<"work_since_break">> \notin DOMAIN (LedgerRecords[i].v)']_vars

\* end_session has just closed the session a hook left a work-since-break
\* sentinel of 88 minutes for: the sentinel is still there and the record
\* has no work_since_break field
C19_Witness ==
    /\ Len(arg) >= 3 /\ arg[Len(arg)].op = "end_session"
    /\ arg[Len(arg) - 1].op = "hook"
    /\ Exists(sentinels, WorkSinceBreakFile(arg[Len(arg)].id))
    /\ sentinels[WorkSinceBreakFile(arg[Len(arg)].id)].body = PyStr(<<"88">>)
    /\ \E i \in 1..Len(LedgerRecords) :
          /\ Item(LedgerRecords[i], "id") = arg[Len(arg)].id
          /\ Item(LedgerRecords[i], "end_time") # None
          /\ <<"work_since_break">> \notin DOMAIN LedgerRecords[i].v

\* the step sets end_time on the record at position i and on no other,
\* and changes no field of any other record
ClosesOnly(i) ==
    /\ Len(LedgerRecords') = Len(LedgerRecords)
    /\ Item(LedgerRecords[i], "end_time") = None
    /\ Item(LedgerRecords[i], "end_time")' # None
    /\ \A k \in DOMAIN LedgerRecords[i].v \ {<<"end_time">>, <<"last_activity">>} :
          (LedgerRecords[i].v[k])' = LedgerRecords[i].v[k]
    /\ \A j \in 1..Len(LedgerRecords) : j # i => LedgerRecords[j]' = LedgerRecords[j]

\* the call before this one was end_session(id) too
EndedJustBefore(id) == Len(arg) >= 1 /\ arg[Len(arg)] = Call("end_session", id)

\* C20 as stated: end_session(id) sets end_time on exactly one record, the
\* most recent open record with that id, and changes no field of any other
\* record; with no open record of that id the ledger is unchanged, and so
\* it is when the session is ended a second time.
C20_EndClosesMostRecent ==
    [][\A id \in SessionIds :
          EndSessionCalled(id) =>
              /\ ~EndedJustBefore(id) =>
                    \A i \in OpenWith(id) :
                       (\A j \in OpenWith(id) : i >= j) => ClosesOnly(i)
              /\ OpenWith(id) = {} \/ EndedJustBefore(id) =>
                    LedgerRecords' = LedgerRecords]_vars

\* C20: end_session(id) sets end_time on exactly one record, the first open
\* record with that id in the order of the ledger, and changes no field of
\* any other record; with no open record of that id the ledger is
\* unchanged, and when at most one open record had the id none has it
\* after the call, so that ending the session twice leaves the same ledger
\* as ending it once.
C20_EndClosesFirstOpen ==
    [][\A id \in SessionIds :
          EndSessionCalled(id) =>
              /\ \A i \in OpenWith(id) :
                    (\A j \in OpenWith(id) : i <= j) => ClosesOnly(i)
              /\ OpenWith(id) = {} => LedgerRecords' = LedgerRecords
              /\ Cardinality(OpenWith(id)) <= 1 => OpenWith(id)' = {}]_vars

\* two sessions were started with the same id and end_session has closed
\* the first of them, the second is still open
C20_Witness ==
    /\ Len(arg) >= 3 /\ arg[Len(arg)].op = "end_session"
    /\ Len(LedgerRecords) = 2
    /\ Item(LedgerRecords[1], "id") = arg[Len(arg)].id
    /\ Item(LedgerRecords[2], "id") = arg[Len(arg)].id
    /\ Item(LedgerRecords[1], "end_time") # None
    /\ Item(LedgerRecords[2], "end_time") = None

---------------------------------------------------------------------------
(* The ledger operations as functions of the ledger file: each of them is  *)
(* called once, at 12:00 local time, on a file that is missing or corrupt, *)
(* on a document of another shape, or on a ledger of well-formed and       *)
(* malformed records, with notification markers of two sessions around.    *)

\* datetime.now() when the clock reads clk
LocalNaive(clk) == [s |-> clk.s + LocalUtcOffset, us |-> clk.us]

\* the two session ids
IdA == PyStr(<<"0f0f0f0f">>)
IdB == PyStr(<<"1e1e1e1e">>)

\* a record with the given fields besides project_dir and forced
Fields(id, start, end, extra) ==
    PyDict(Entry("id", id) @@ Entry("start_time", start) @@ Entry("end_time", end)
           @@ Entry("project_dir", PyStr(<<"/tmp">>))
           @@ Entry("forced", PyBool(FALSE)) @@ extra)

\* open records: started at 07:38 (an orphan at 12:00), at 08:00 (4 hours
\* old), at 11:38 and at 12:10, and at 07:50 with the local offset in
\* its text; closed ones: 09:00-10:20, and 09:05-11:50
\* with a number for last_activity; open records whose start_time does not
\* parse, is missing or is empty; an orphan without id; a record without
\* end_time; a closed record whose end_time does not parse
WellFormedRecords ==
    {Fields(IdA, IsoMinute(458), None, <<>>),
     Fields(IdA, IsoMinute(480), None, <<>>),
     Fields(IdB, IsoMinute(698), None, <<>>),
     Fields(IdB, IsoMinute(730), None, <<>>),
     Fields(IdA, IsoMinute(540), IsoMinute(620), <<>>),
     Fields(IdB, IsoFormat(Minute(470, 0), TRUE, LocalUtcOffset), None, <<>>)}

MalformedRecords ==
    {Fields(IdB, IsoMinute(545), IsoMinute(710), Entry("last_activity", PyInt(5))),
     Fields(IdA, PyStr(<<"garbage">>), None, <<>>),
     Fields(IdB, Absent, None, <<>>),
     Fields(IdB, PyStr(<<>>), None, <<>>),
     Fields(Absent, IsoMinute(458), None, <<>>),
     Fields(IdA, IsoMinute(690), Absent, <<>>),
     Fields(IdB, IsoMinute(540), PyStr(<<"garbage">>), <<>>)}

MaxRecords == 2

RecordLedgers ==
    UNION {{l \in [1..n -> WellFormedRecords \cup MalformedRecords] :
               \A i, j \in 1..n : l[i] = l[j] => i = j} : n \in 1..MaxRecords}

\* a file that is missing, one that is not JSON, a list, a mapping without
\* sessions, and mappings whose sessions entry is null, a number or a
\* mapping
UnshapedFiles ==
    {Missing, JsonFile(InvalidJson), JsonFile(EmptyList),
     JsonFile(PyDict(Entry("version", PyInt(1)))),
     JsonFile(PyDict(Entry("sessions", None))),
     JsonFile(PyDict(Entry("sessions", PyInt(5)))),
     JsonFile(PyDict(Entry("sessions", EmptyDict)))}

LedgerFiles == UnshapedFiles \cup {Ledger(<<>>)} \cup {Ledger(l) : l \in RecordLedgers}

MarkerPool == {<<"warn_80", IdA>>, <<"session_limit", IdA>>, <<"warn_80", IdB>>}

\* the clock when it is 12:00 local time
NoonReading == [s |-> Minute(720, 0).s - LocalUtcOffset, us |-> 0]

InitLedger ==
    /\ log_file \in LedgerFiles
    /\ markers \in SUBSET MarkerPool
    /\ arg \in [session_id : {IdA, IdB}]
    /\ res = NoResult
    /\ config_files = <<>>
    /\ state_file = Missing
    /\ sentinels = <<>>
    /\ stderr = <<>>
    /\ writes = <<>>
    /\ clock = NoonReading

\* what a call returned or raised
Done(op, value, exc) == [op |-> op, value |-> value, exc |-> exc]

LedgerBreak ==
    /\ res = NoResult
    /\ LET r == check_break(log_file, 15, LocalNaive(clock), 150)
       IN res' = IF IsException(r) THEN Done("check_break", None, r)
                 ELSE Done("check_break", r, None)
    /\ UNCHANGED <<arg, config_files, state_file, log_file, markers, sentinels,
                   stderr, writes, clock>>

LedgerStart ==
    /\ res = NoResult
    /\ LET o == start_session(log_file, PyStr(<<"/tmp">>), FALSE, arg.session_id,
                              clock)
       IN /\ log_file' = o.log
          /\ res' = Done("start_session", o.sid, o.exc)
          /\ writes' = (IF o.exc # None THEN writes ELSE Append(writes, "log"))
    /\ UNCHANGED <<arg, config_files, state_file, markers, sentinels, stderr, clock>>

LedgerEnd ==
    /\ res = NoResult
    /\ LET o == end_session(log_file, sentinels, markers, arg.session_id, clock)
       IN /\ log_file' = o.log
          /\ sentinels' = o.sentinels
          /\ markers' = o.markers
          /\ res' = Done("end_session", None, o.exc)
          /\ writes' = (IF o.exc # None THEN writes ELSE Append(writes, "log"))
    /\ UNCHANGED <<arg, config_files, state_file, stderr, clock>>

LedgerCleanup ==
    /\ res = NoResult
    /\ LET o == cleanup_orphan_sessions(log_file, markers, LocalNaive(clock))
       IN /\ log_file' = o.log
          /\ markers' = o.markers
          /\ res' = Done("cleanup_orphan_sessions", None, o.exc)
          /\ writes' = (IF o.exc # None THEN writes ELSE Append(writes, "log"))
    /\ UNCHANGED <<arg, config_files, state_file, sentinels, stderr, clock>>

NextLedger == LedgerBreak \/ LedgerStart \/ LedgerEnd \/ LedgerCleanup

SpecLedger == InitLedger /\ [][NextLedger]_vars

---------------------------------------------------------------------------
(* Claims on the ledger operations (under SpecLedger) *)

\* the call made, and whether it returned
Called(op) == res # NoResult /\ res.op = op
Completed(op) == Called(op) /\ res.exc = None

\* the step is a call of op
Calls(op) == res = NoResult /\ res' # NoResult /\ res'.op = op

\* the records of the ledger, and the ledger is one the operations write:
\* a list of records with an id, a start_time that parses and an end_time
\* that is null or parses (no file, or a file that does not load, being
\* the empty ledger)
ListedRecords == Item(_load_log(log_file), "sessions").v
ProgramWritten ==
    /\ Item(_load_log(log_file), "sessions").t = "list"
    /\ \A i \in 1..Len(ListedRecords) :
          /\ <<"id">> \in DOMAIN ListedRecords[i].v
          /\ IsIso(Get(ListedRecords[i], "start_time", None))
          /\ <<"end_time">> \in DOMAIN ListedRecords[i].v
          /\ Item(ListedRecords[i], "end_time") = None
             \/ IsIso(Item(ListedRecords[i], "end_time"))
          /\ <<"last_activity">> \in DOMAIN ListedRecords[i].v
                => IsIso(Item(ListedRecords[i], "last_activity"))

\* the markers scoped to the session id
MarkersOf(marks, id) == {mk \in marks : mk[2] = id}

\* the record is open and cleanup_orphan_sessions closes it at 12:00: it
\* started more than 4 hours before, or its start_time is missing or does
\* not parse
Orphaned(r) ==
    /\ Get(r, "end_time", Absent) = None
    /\ IsIso(Get(r, "start_time", None))
    /\ Earlier(After(Item(r, "start_time").iso, ORPHAN_THRESHOLD_HOURS * 3600),
               LocalNaive(clock))
Unstarted(r) ==
    /\ Get(r, "end_time", Absent) = None
    /\ ~IsIso(Get(r, "start_time", None))

\* C21: end_session(A) and the orphan closure of A remove every
\* notification marker scoped to A and never one scoped to another id B.
C21_OwnMarkersOnly ==
    [][/\ Calls("end_session") /\ ProgramWritten =>
            /\ MarkersOf(markers', arg.session_id) = {}
            /\ \A mk \in markers : mk[2] # arg.session_id => mk \in markers'
       /\ Calls("cleanup_orphan_sessions") /\ ProgramWritten =>
            \A id \in {IdA, IdB} :
               IF \E i \in 1..Len(ListedRecords) :
                     /\ Item(ListedRecords[i], "id") = id
                     /\ Orphaned(ListedRecords[i])
               THEN MarkersOf(markers', id) = {}
               ELSE MarkersOf(markers', id) = MarkersOf(markers, id)]_vars

\* the orphan of session A was closed with markers of both sessions
\* around, and those of B are all that is left
C21_Witness ==
    /\ Completed("cleanup_orphan_sessions")
    /\ ListedRecords = <<Fields(IdA, IsoMinute(458), IsoMinute(458), <<>>)>>
    /\ markers = {<<"warn_80", IdB>>}
    /\ writes = <<"log">>

\* C22: cleanup_orphan_sessions(now) closes every open record whose
\* start_time is more than 4 hours before now, with its start_time as
\* end_time, and removes the markers of its id; open records of at most 4
\* hours and closed records are left as they are.
C22_OrphansClosed ==
    [][Calls("cleanup_orphan_sessions") /\ ProgramWritten =>
          /\ res'.exc = None
          /\ Len(ListedRecords') = Len(ListedRecords)
          /\ \A i \in 1..Len(ListedRecords) :
                IF Orphaned(ListedRecords[i])
                THEN /\ ListedRecords[i]'
                          = SetItem(ListedRecords[i], "end_time",
                                    Item(ListedRecords[i], "start_time"))
                     /\ MarkersOf(markers', Item(ListedRecords[i], "id")) = {}
                ELSE ListedRecords[i]' = ListedRecords[i]]_vars

\* the pass has closed the record open since 07:38 at its start_time and
\* left the one open since 08:00, 4 hours old, open
C22_Witness ==
    /\ Completed("cleanup_orphan_sessions")
    /\ ListedRecords = <<Fields(IdA, IsoMinute(458), IsoMinute(458), <<>>),
                         Fields(IdA, IsoMinute(480), None, <<>>)>>
    /\ writes = <<"log">>

\* the sessions entry of the ledger is a list
Listed == Item(_load_log(log_file), "sessions").t = "list"

\* the step is a call of op that returns
Returns(op) == Calls(op) /\ res'.exc = None

\* now.isoformat() of the naive local now of the call
NowText == IsoFormat(LocalNaive(clock), FALSE, 0)

\* every record still open after the pass has a start_time that parses, at
\* most 4 hours before now
OpenOnesRecent ==
    \A i \in 1..Len(ListedRecords) :
        Get(ListedRecords[i], "end_time", Absent)' = None
            => /\ IsIso(Get(ListedRecords[i], "start_time", None))
               /\ ~Orphaned(ListedRecords[i])

\* C23 (as stated): after cleanup_orphan_sessions(now) returns, every record
\* that was open with a missing or unparseable start_time is closed with now
\* as end_time, and every record still open has a start_time that parses,
\* at most 4 hours before now.
C23_ClosedAtNow ==
    [][Returns("cleanup_orphan_sessions") /\ Listed =>
          /\ \A i \in 1..Len(ListedRecords) :
                Unstarted(ListedRecords[i])
                    => Get(ListedRecords[i], "end_time", Absent)' = NowText
          /\ OpenOnesRecent]_vars

\* C23 (amended): after cleanup_orphan_sessions(now) returns, every record
\* that was open with a missing or unparseable start_time is closed: with
\* the value of its start_time as end_time when that value is present and
\* not empty, with now otherwise; and every record still open has a
\* start_time that parses, at most 4 hours before now.
C23_ClosedAtStartOrNow ==
    [][Returns("cleanup_orphan_sessions") /\ Listed =>
          /\ \A i \in 1..Len(ListedRecords) :
                Unstarted(ListedRecords[i])
                    => Get(ListedRecords[i], "end_time", Absent)'
                          = IF Nonempty(Get(ListedRecords[i], "start_time", None))
                            THEN Item(ListedRecords[i], "start_time")
                            ELSE NowText
          /\ OpenOnesRecent]_vars

\* the pass has closed a record whose start_time was the text "garbage" with
\* that text as end_time, and one without start_time at 12:00
C23_Witness ==
    /\ Completed("cleanup_orphan_sessions")
    /\ clock = NoonReading
    /\ ListedRecords = <<Fields(IdA, PyStr(<<"garbage">>), PyStr(<<"garbage">>), <<>>),
                         Fields(IdB, Absent, IsoMinute(720), <<>>)>>

\* C24: on a ledger file that is missing, is not JSON, or is not a mapping
\* whose sessions entry is a list, check_break returns ok with 0 minutes
\* left, and start_session, end_session and cleanup_orphan_sessions return
\* without raising.
C24_UnshapedIsEmpty ==
    [][res = NoResult /\ res' # NoResult /\ log_file \in UnshapedFiles =>
          /\ res'.exc = None
          /\ res'.op = "check_break" => res'.value = BreakResult(TRUE, 0)]_vars

\* start_session has raised AttributeError on the ledger {"sessions": null}
C24_Witness ==
    /\ Called("start_session")
    /\ res.exc = AttributeError
    /\ log_file = JsonFile(PyDict(Entry("sessions", None)))
    /\ writes = <<>>

\* the record with its end_time for last_activity where the last_activity it
\* has does not parse
ActivityAtEnd(r) ==
    IF /\ <<"last_activity">> \in DOMAIN r.v
       /\ ~IsIso(Item(r, "last_activity"))
       /\ <<"end_time">> \in DOMAIN r.v
    THEN SetItem(r, "last_activity", Item(r, "end_time"))
    ELSE r

\* C25: on every ledger, also with records whose start_time, end_time or
\* last_activity does not parse or whose end_time, start_time or id is
\* missing, check_break and cleanup_orphan_sessions return without raising,
\* and check_break answers as it does with end_time in the place of each
\* last_activity that does not parse.
C25_MalformedRecordsTolerated ==
    [][(Calls("check_break") \/ Calls("cleanup_orphan_sessions")) /\ Listed =>
          /\ res'.exc = None
          /\ Calls("check_break") =>
                res'.value = check_break(Ledger([i \in 1..Len(ListedRecords)
                                                   |-> ActivityAtEnd(ListedRecords[i])]),
                                         15, LocalNaive(clock), 150)]_vars

\* cleanup_orphan_sessions has raised KeyError on the ledger whose only
\* record has no end_time, and has written nothing
C25_Witness ==
    /\ Called("cleanup_orphan_sessions")
    /\ res.exc = KeyError
    /\ ListedRecords = <<Fields(IdA, IsoMinute(690), Absent, <<>>)>>
    /\ writes = <<>>

---------------------------------------------------------------------------
(* The life of a session: start_session, touch_session, end_session and   *)
(* the orphan pass in any order, with the clock able to jump past the     *)
(* orphan threshold once.                                                  *)

CleanupOrphans ==
    /\ Len(arg) < MaxCalls
    /\ LET o == cleanup_orphan_sessions(log_file, markers, LocalNaive(clock))
       IN /\ log_file' = o.log
          /\ markers' = o.markers
          /\ res' = o.exc
          /\ writes' = (IF o.exc # None THEN writes ELSE Append(writes, "log"))
    /\ arg' = Append(arg, Call("cleanup_orphan_sessions", None))
    /\ UNCHANGED <<config_files, state_file, sentinels, stderr, clock>>

\* a minute more than the orphan threshold passes
HoursPass ==
    /\ clock = FirstReading
    /\ clock' = [clock EXCEPT !.s = @ + ORPHAN_THRESHOLD_HOURS * 3600 + 60]
    /\ UNCHANGED <<arg, res, config_files, state_file, log_file, markers,
                   sentinels, stderr, writes>>

NextLifecycle ==
    StartSession \/ TouchSession \/ EndSession \/ CleanupOrphans \/ HoursPass

SpecLifecycle == InitSession /\ [][NextLifecycle]_vars

\* the ledger has records of the id and all of them are closed
AllClosed(id) ==
    /\ \E i \in 1..Len(LedgerRecords) : Item(LedgerRecords[i], "id") = id
    /\ \A i \in 1..Len(LedgerRecords) :
          Item(LedgerRecords[i], "id") = id
              => Item(LedgerRecords[i], "end_time") # None

\* C27: under any sequence of start_session, touch_session, end_session and
\* cleanup_orphan_sessions, once the record of a session id is closed there
\* is no activity sentinel of that id.
C27_NoSentinelOnceClosed ==
    \A id \in SessionIds :
        AllClosed(id) => ~Exists(sentinels, ActivityFile(id))

\* start_session, touch_session, and after more than 4 hours the orphan
\* pass: the record is closed and the activity sentinel is still there
C27_Witness ==
    /\ Len(arg) = 3
    /\ arg[1].op = "start_session"
    /\ arg[2] = Call("touch_session", arg[1].id)
    /\ arg[3].op = "cleanup_orphan_sessions"
    /\ AllClosed(arg[1].id)
    /\ Exists(sentinels, ActivityFile(arg[1].id))

---------------------------------------------------------------------------
(* One process runs start_session, end_session or cleanup_orphan_sessions *)
(* statement by statement while another runs touch_session and the clock  *)
(* advances.  arg holds the call and the files it started from, res the    *)
(* position and the local variables of the two processes.  write_text      *)
(* opens the file, which empties it, and then writes.                      *)

\* mutant: the text read from the sentinel is stored as end_time too
ReadActivity_AsEnd(s, sents, session_id) ==
    IF Exists(sents, ActivityFile(session_id))
       /\ ~ReadTextRaises(sents, ActivityFile(session_id))
    THEN SetItem(SetItem(s, "last_activity",
                         ReadTextStrip(sents, ActivityFile(session_id))),
                 "end_time", ReadTextStrip(sents, ActivityFile(session_id)))
    ELSE s

\* with contextlib.suppress(Exception):
\*     s["last_activity"] = activity_file.read_text().strip()
ReadActivity(s, sents, session_id) ==
    IF Exists(sents, ActivityFile(session_id))
       /\ ~ReadTextRaises(sents, ActivityFile(session_id))
    THEN SetItem(s, "last_activity", ReadTextStrip(sents, ActivityFile(session_id)))
    ELSE s

\* if not s.get("last_activity"): s["last_activity"] = s["end_time"]
ActivityFallback(s) ==
    IF ~Nonempty(Get(s, "last_activity", None))
    THEN SetItem(s, "last_activity", Item(s, "end_time"))
    ELSE s

\* 08:50 and 03:50 UTC on 1970-01-02
EarlierReading == [s |-> FirstReading.s - 600, us |-> 0]
NightReading == [s |-> FirstReading.s - 600 - (ORPHAN_THRESHOLD_HOURS + 1) * 3600, us |-> 0]

RaceLedgers ==
    {Ledger(<<>>),
     Ledger(<<Fields(IdA, NowLocalIso(EarlierReading), None, <<>>)>>),
     Ledger(<<Fields(IdA, NowLocalIso(NightReading), None, <<>>),
              Fields(IdB, NowLocalIso(EarlierReading), None, <<>>)>>)}

InitRace ==
    /\ log_file \in RaceLedgers
    /\ sentinels \in {<<>>, touch_session(<<>>, IdA, EarlierReading)}
    /\ markers \in {{}, {<<"warn_80", IdA>>}}
    /\ arg \in {[op |-> op, session_id |-> id, toucher |-> t, log |-> log_file,
                 sentinels |-> sentinels, markers |-> markers] :
                   op \in {"start_session", "end_session", "cleanup_orphan_sessions"},
                   id \in {IdA, IdB}, t \in {IdA, IdB}}
    /\ res = [pc |-> "load", data |-> None, i |-> 0, clk |-> None,
              touch |-> "idle", stamp |-> None]
    /\ config_files = <<>>
    /\ state_file = Missing
    /\ stderr = <<>>
    /\ writes = <<>>
    /\ clock = FirstReading

\* data = _load_log(log_path)
RaceLoad ==
    /\ res.pc = "load"
    /\ res' = [res EXCEPT !.pc = "modify", !.data = _load_log(log_file)]
    /\ UNCHANGED <<arg, config_files, state_file, log_file, markers, sentinels,
                   stderr, writes, clock>>

\* the statements between the load and the save that read no sentinel:
\* the append of start_session, the loop of cleanup_orphan_sessions, and
\* the search of end_session with the assignment of end_time
RaceModify ==
    /\ res.pc = "modify"
    /\ LET sessions == Item(res.data, "sessions").v
           open == OpenAt(sessions, arg.session_id)
           first == CHOOSE i \in open : \A j \in open : i <= j
           pass == CleanupPass(log_file, res.data, sessions, markers,
                               LocalNaive(clock))
       IN CASE arg.op = "start_session" ->
                 /\ res' = [res EXCEPT
                       !.pc = "save", !.clk = clock,
                       !.data = SetItem(res.data, "sessions",
                                   PyList(Append(sessions,
                                       Fields(arg.session_id, NowLocalIso(clock),
                                              None, <<>>))))]
                 /\ UNCHANGED markers
            [] arg.op = "cleanup_orphan_sessions" ->
                 /\ res' = [res EXCEPT !.pc = "save", !.clk = clock,
                                       !.data = pass.log.json]
                 /\ markers' = pass.markers
            [] arg.op = "end_session" /\ open = {} ->
                 /\ res' = [res EXCEPT !.pc = "save"]
                 /\ UNCHANGED markers
            [] arg.op = "end_session" /\ open # {} ->
                 /\ res' = [res EXCEPT
                       !.pc = "exists", !.clk = clock, !.i = first,
                       !.data = SetItem(res.data, "sessions",
                                   PyList([sessions EXCEPT ![first] =
                                       SetItem(@, "end_time", NowLocalIso(clock))]))]
                 /\ UNCHANGED markers
    /\ UNCHANGED <<arg, config_files, state_file, log_file, sentinels, stderr,
                   writes, clock>>

\* the record end_session is closing, replaced by s
WithRecord(s) ==
    SetItem(res.data, "sessions",
            PyList([Item(res.data, "sessions").v EXCEPT ![res.i] = s]))
ClosingRecord == Item(res.data, "sessions").v[res.i]

\* if activity_file.exists():
RaceExists ==
    /\ res.pc = "exists"
    /\ res' = IF Exists(sentinels, ActivityFile(arg.session_id))
              THEN [res EXCEPT !.pc = "read"]
              ELSE [res EXCEPT !.pc = "save",
                               !.data = WithRecord(ActivityFallback(ClosingRecord))]
    /\ UNCHANGED <<arg, config_files, state_file, log_file, markers, sentinels,
                   stderr, writes, clock>>

\* s["last_activity"] = activity_file.read_text().strip()
RaceRead ==
    /\ res.pc = "read"
    /\ res' = [res EXCEPT !.pc = "unlink",
                          !.data = WithRecord(ReadActivity(ClosingRecord, sentinels,
                                                           arg.session_id))]
    /\ UNCHANGED <<arg, config_files, state_file, log_file, markers, sentinels,
                   stderr, writes, clock>>

\* activity_file.unlink(), and the fallback to end_time
RaceUnlink ==
    /\ res.pc = "unlink"
    /\ sentinels' = Unlink(sentinels, ActivityFile(arg.session_id))
    /\ res' = [res EXCEPT !.pc = "save",
                          !.data = WithRecord(ActivityFallback(ClosingRecord))]
    /\ UNCHANGED <<arg, config_files, state_file, log_file, markers, stderr,
                   writes, clock>>

\* _save_log(log_path, data)
RaceSave ==
    /\ res.pc = "save"
    /\ log_file' = _save_log(res.data)
    /\ writes' = Append(writes, "log")
    /\ res' = [res EXCEPT !.pc = IF arg.op = "end_session" THEN "clean" ELSE "done"]
    /\ UNCHANGED <<arg, config_files, state_file, markers, sentinels, stderr, clock>>

\* _clean_notification_markers(session_id)
RaceClean ==
    /\ res.pc = "clean"
    /\ markers' = _clean_notification_markers(markers, arg.session_id)
    /\ res' = [res EXCEPT !.pc = "done"]
    /\ UNCHANGED <<arg, config_files, state_file, log_file, sentinels, stderr,
                   writes, clock>>

\* touch_session in the other process: the text is made from the clock, the
\* file opened for writing
TouchOpens ==
    /\ res.touch = "idle"
    /\ res' = [res EXCEPT !.touch = "open", !.stamp = clock]
    /\ sentinels' = (ActivityFile(arg.toucher) :> SentinelText(PyStr(<<>>), FALSE))
                    @@ sentinels
    /\ UNCHANGED <<arg, config_files, state_file, log_file, markers, stderr,
                   writes, clock>>

\* and the text written
TouchWrites ==
    /\ res.touch = "open"
    /\ res' = [res EXCEPT !.touch = "done"]
    /\ sentinels' = touch_session(sentinels, arg.toucher, res.stamp)
    /\ UNCHANGED <<arg, config_files, state_file, log_file, markers, stderr,
                   writes, clock>>

RaceTick ==
    /\ clock.s < FirstReading.s + MaxTicks * 60
    /\ clock' = [clock EXCEPT !.s = @ + 60]
    /\ UNCHANGED <<arg, res, config_files, state_file, log_file, markers,
                   sentinels, stderr, writes>>

NextRace ==
    \/ RaceLoad \/ RaceModify \/ RaceExists \/ RaceRead \/ RaceUnlink
    \/ RaceSave \/ RaceClean \/ TouchOpens \/ TouchWrites \/ RaceTick

SpecRace == InitRace /\ [][NextRace]_vars

\* the ledger the call leaves when run alone on the files it started from,
\* reading the clock when it did
AloneLedger ==
    LET clk == IF res.clk = None THEN clock ELSE res.clk
    IN CASE arg.op = "start_session" ->
              start_session(arg.log, PyStr(<<"/tmp">>), FALSE, arg.session_id,
                            clk).log
         [] arg.op = "end_session" ->
              end_session(arg.log, arg.sentinels, arg.markers, arg.session_id,
                          clk).log
         [] arg.op = "cleanup_orphan_sessions" ->
              cleanup_orphan_sessions(arg.log, arg.markers, LocalNaive(clk)).log

\* a step of touch_session leaves the ledger and the markers alone and
\* writes no sentinel but the activity sentinel of its id
TouchWritesSentinelOnly ==
    res'.touch # res.touch =>
        /\ log_file' = log_file
        /\ markers' = markers
        /\ DOMAIN sentinels' = DOMAIN sentinels \cup {ActivityFile(arg.toucher)}
        /\ \A p \in DOMAIN sentinels :
              p # ActivityFile(arg.toucher) => sentinels'[p] = sentinels[p]

\* the ledger with the last_activity of every record removed
WithoutActivity(file) ==
    [i \in 1..Len(Item(file.json, "sessions").v) |->
        [k \in DOMAIN Item(file.json, "sessions").v[i].v \ {<<"last_activity">>}
            |-> Item(file.json, "sessions").v[i].v[k]]]

\* C26 (as stated): touch_session(id) writes only the activity sentinel of
\* id and never the ledger, and at whatever point of another process's
\* start_session, end_session or cleanup_orphan_sessions it runs, the
\* ledger that call leaves is the one it leaves when run alone.
C26_TouchLeavesLedgerAlone ==
    [][/\ TouchWritesSentinelOnly
       /\ res'.pc = "done" => log_file' = AloneLedger']_vars

\* C26 (amended): touch_session(id) writes only the activity sentinel of id
\* and never the ledger; run during another process's start_session,
\* cleanup_orphan_sessions, or end_session of another id, it leaves the
\* ledger of that call as it is when run alone; run during end_session of
\* the same id it changes at most the last_activity of the record closed.
C26_TouchChangesActivityAtMost ==
    [][/\ TouchWritesSentinelOnly
       /\ res'.pc = "done" =>
             IF arg.op = "end_session" /\ arg.session_id = arg.toucher
             THEN WithoutActivity(log_file') = WithoutActivity(AloneLedger')
             ELSE log_file' = AloneLedger']_vars

\* end_session of the session that is touched meanwhile has closed the
\* record with a last_activity that is not the one it writes when run alone
C26_Witness ==
    /\ res.pc = "done" /\ res.touch = "done"
    /\ arg.op = "end_session" /\ arg.session_id = arg.toucher
    /\ log_file # AloneLedger
    /\ WithoutActivity(log_file) = WithoutActivity(AloneLedger)

---------------------------------------------------------------------------
(* compute_session_state as a function of the configuration, the clock    *)
(* and the zone, next to the verdict of check_schedule on the same now.    *)

\* sessions: no entry, or limits of 0, 1, 7, 150 and 600 minutes with a
\* break of 15 (by default) or 5 minutes
SessionsChoices ==
    {Absent} \cup
    {PyDict(Entry("max_continuous_minutes", m) @@ Entry("min_break_minutes", b)) :
        m \in {Absent, PyInt(0), PyInt(1), PyInt(7), PyInt(150), PyInt(600)},
        b \in {Absent, PyInt(5)}}

ProjectConfigs ==
    {PyDict(Entry("framework", PyStr(<<"human-md">>))
            @@ Entry("schedule", PyDict(Entry("allowed_hours", a)))
            @@ Entry("sessions", s)) :
        a \in AllowedHoursChoices, s \in SessionsChoices}

ZoneNames == {PyStr(<<"UTC">>), PyStr(<<"Asia/Tokyo">>), PyStr(<<"America/Bogota">>)}

\* the clock readings at which the wall time of the zone is one of
\* ScheduleNows
InitProject ==
    /\ arg \in {[config |-> c, tz_name |-> z,
                 clock |-> [s |-> w.s - ZoneInfo(z), us |-> w.us]] :
                   c \in ProjectConfigs, z \in ZoneNames, w \in ScheduleNows}
    /\ res = NoResult
    /\ NoFiles

EvalProject ==
    /\ res = NoResult
    /\ LET tz == ZoneInfo(arg.tz_name)
           now_dt == DatetimeNow(arg.clock, tz)
       IN res' = [verdict |-> check_schedule(arg.config, now_dt),
                  state |-> compute_session_state(arg.config, now_dt, tz, IdA)]
    /\ UNCHANGED <<arg, config_files, state_file, log_file, markers, sentinels,
                   stderr, writes, clock>>

NextProject == EvalProject

SpecProject == InitProject /\ [][NextProject]_vars

\* sessions.max_continuous_minutes of the configuration, 150 by default
ConfiguredMax ==
    Get(Get(arg.config, "sessions", EmptyDict), "max_continuous_minutes",
        PyInt(150)).v

\* C28: the snapshot has start_epoch = the epoch of now, max_epoch =
\* start_epoch + max_continuous_minutes * 60 and warn_epoch = start_epoch +
\* floor(max_continuous_minutes * 60 * 0.8), max_continuous_minutes being
\* 150 by default; hence start_epoch <= warn_epoch <= max_epoch.
C28_LimitEpochs ==
    res # NoResult =>
        /\ res.state.start_epoch = arg.clock.s
        /\ res.state.max_epoch = res.state.start_epoch + ConfiguredMax * 60
        /\ 10 * (res.state.warn_epoch - res.state.start_epoch)
              <= ConfiguredMax * 60 * 8
        /\ ConfiguredMax * 60 * 8
              < 10 * (res.state.warn_epoch - res.state.start_epoch + 1)
        /\ res.state.start_epoch <= res.state.warn_epoch
        /\ res.state.warn_epoch <= res.state.max_epoch

\* the snapshot of 09:00 in Tokyo with a limit of 7 minutes: the warning
\* comes 336 seconds after the start
C28_Witness ==
    /\ res # NoResult
    /\ arg.tz_name = PyStr(<<"Asia/Tokyo">>)
    /\ ConfiguredMax = 7
    /\ res.state.start_epoch = 86400
    /\ res.state.warn_epoch = 86400 + 336
    /\ res.state.max_epoch = 86400 + 420

\* C29: the snapshot has a field min_break_seconds equal to
\* sessions.min_break_minutes * 60, 900 by default.
C29_MinBreakSeconds ==
    res # NoResult =>
        /\ "min_break_seconds" \in DOMAIN res.state
        /\ res.state["min_break_seconds"]
              = 60 * Get(Get(arg.config, "sessions", EmptyDict),
                         "min_break_minutes", PyInt(15)).v

\* the snapshot of a configuration with min_break_minutes 5 has no
\* min_break_seconds
C29_Witness ==
    /\ res # NoResult
    /\ Get(Get(arg.config, "sessions", EmptyDict), "min_break_minutes", None)
          = PyInt(5)
    /\ "min_break_seconds" \notin DOMAIN res.state
    /\ "max_epoch" \in DOMAIN res.state

\* C30: when check_schedule places now inside the allowed window, the
\* end_allowed_epoch of the snapshot is later than its start_epoch.
C30_EndAllowedAhead ==
    res # NoResult /\ res.verdict.status = "ok"
        => res.state.end_allowed_epoch > res.state.start_epoch

\* allowed_hours from 09:00 to 09:00 at 12:00 UTC: check_schedule allows it
\* and the end of the window is put 3 hours before the start of the session
C30_Witness ==
    /\ res # NoResult
    /\ res.verdict.status = "ok"
    /\ arg.tz_name = PyStr(<<"UTC">>)
    /\ Get(Item(arg.config, "schedule"), "allowed_hours", None)
          = PyDict(Entry("start", HHMM(<<9, 0>>)) @@ Entry("end", HHMM(<<9, 0>>)))
    /\ res.state.start_epoch = 86400 + 12 * 3600
    /\ res.state.end_allowed_epoch = 86400 + 9 * 3600

---------------------------------------------------------------------------
(* The epochs of the snapshot next to the verdict of check_schedule, for   *)
(* schedules with allowed hours, a wind-down and blocked periods.          *)

EpochWindDowns ==
    {Absent} \cup
    {PyDict(Entry("start", HHMM(t))) :
        t \in {<<23, 30>>, <<5, 30>>, <<17, 0>>, <<12, 0>>}}

EpochConfigs ==
    {PyDict(Entry("framework", PyStr(<<"human-md">>)) @@
            Entry("schedule",
                  PyDict(Entry("allowed_hours", a) @@ Entry("blocked_periods", p)
                         @@ Entry("wind_down", w)))) :
        a \in AllowedHoursChoices, p \in BlockedPeriodsChoices,
        w \in EpochWindDowns}

InitEpochs ==
    /\ arg \in {[config |-> c, tz_name |-> z, now |-> w,
                 clock |-> [s |-> w.s - ZoneInfo(z), us |-> w.us]] :
                   c \in EpochConfigs,
                   z \in {PyStr(<<"UTC">>), PyStr(<<"Asia/Tokyo">>)},
                   w \in ScheduleNows}
    /\ res = NoResult
    /\ NoFiles

EvalEpochs ==
    /\ res = NoResult
    /\ LET tz == ZoneInfo(arg.tz_name)
           now_dt == DatetimeNow(arg.clock, tz)
       IN res' = [verdict |-> check_schedule(arg.config, now_dt),
                  state |-> compute_session_state(arg.config, now_dt, tz, IdA)]
    /\ UNCHANGED <<arg, config_files, state_file, log_file, markers, sentinels,
                   stderr, writes, clock>>

NextEpochs == EvalEpochs

SpecEpochs == InitEpochs /\ [][NextEpochs]_vars

\* the allowed window wraps midnight
Overnight == ArgEndRaw # 0 /\ ArgEndRaw < ArgStart

InEpochs(i) ==
    /\ res.state.blocked_periods[i].start_epoch <= arg.clock.s
    /\ arg.clock.s < res.state.blocked_periods[i].end_epoch

WindDownInHours ==
    /\ ArgHasWindDown
    /\ ArgPeriods = <<>>
    /\ InAllowed(ArgStart, ArgEnd, ArgWindStart)
    /\ InAllowed(ArgStart, ArgEnd, ArgMinute)

\* C40: for a wind-down start inside the allowed window, no blocked days
\* or periods and now inside the allowed window, wind_down_epoch <= the
\* epoch of now exactly when check_schedule returns wind_down.
C40_WindDownAgrees ==
    res # NoResult /\ WindDownInHours =>
        (res.state.wind_down_epoch <= arg.clock.s
            <=> res.verdict.status = "wind_down")

\* 09:00-09:00 with the wind-down at 12:00, seen at 08:59 in UTC:
\* check_schedule returns wind_down and the wind_down_epoch of the snapshot
\* is 3 hours and a minute ahead
C40_Witness ==
    /\ res # NoResult /\ WindDownInHours
    /\ ArgStart = 540 /\ ArgEndRaw = 540 /\ ArgWindStart = 720
    /\ arg.tz_name = PyStr(<<"UTC">>)
    /\ arg.now = [s |-> 86400 + 539 * 60, us |-> 0]
    /\ res.verdict.status = "wind_down"
    /\ res.state.wind_down_epoch = arg.clock.s + 181 * 60

---------------------------------------------------------------------------
(* parse_yaml as a function of the text.  A text is made of blocks, the    *)
(* entries of the top-level mapping, each with the values it is to give;   *)
(* a malformed text has a line that is no entry, or entries whose          *)
(* indentation fits no mapping, among its blocks.                          *)

MaxBlocks == 2

\* a value expected at a path of keys of the result ("[1]" being the first
\* item of a list)
Expect(path, value) == [path |-> path, value |-> value]

Block(text, expect) == [text |-> text, expect |-> expect]

\* the text of the lines joined by single spaces
Folded(lines) == PyStr(join(<<" ">>, lines))

\* a: 1 / s: with a nested entry / m: > folded over two lines of different
\* depth / d: a list of one scalar / t: with a nested folded string and a
\* sibling after it / p: a list of one object whose second key is folded /
\* q: a list of one object whose first key is folded / c: > folded over
\* lines one of which starts with "#"
Blocks ==
    {Block(KeyVal(0, "a", <<"1">>), {Expect(<<<<"a">>>>, PyInt(1))}),
     Block(Key(0, "s") \o KeyVal(2, "x", <<"y">>),
           {Expect(<<<<"s">>, <<"x">>>>, PyStr(<<"y">>))}),
     Block(Line(0, <<"m", ":", " ", ">">>) \o Line(2, <<"hello">>)
               \o Line(4, <<"world", ".">>),
           {Expect(<<<<"m">>>>, Folded(<<<<"hello">>, <<"world", ".">>>>))}),
     Block(Key(0, "d") \o Line(2, <<"-", " ", "Sunday">>),
           {Expect(<<<<"d">>, <<"[1]">>>>, PyStr(<<"Sunday">>))}),
     Block(Key(0, "t") \o Line(2, <<"n", ":", " ", ">">>) \o Line(4, <<"one">>)
               \o Line(4, <<"two">>) \o KeyVal(2, "u", <<"v">>),
           {Expect(<<<<"t">>, <<"n">>>>, Folded(<<<<"one">>, <<"two">>>>)),
            Expect(<<<<"t">>, <<"u">>>>, PyStr(<<"v">>))}),
     Block(Key(0, "p") \o Line(2, <<"-", " ", "k", ":", " ", "x">>)
               \o Line(4, <<"g", ":", " ", ">">>) \o Line(6, <<"deep">>)
               \o KeyVal(4, "h", <<"i">>),
           {Expect(<<<<"p">>, <<"[1]">>, <<"g">>>>, Folded(<<<<"deep">>>>)),
            Expect(<<<<"p">>, <<"[1]">>, <<"h">>>>, PyStr(<<"i">>))}),
     Block(Key(0, "q") \o Line(2, <<"-", " ", "f", ":", " ", ">">>)
               \o Line(6, <<"first">>) \o KeyVal(4, "e", <<"w">>),
           {Expect(<<<<"q">>, <<"[1]">>, <<"f">>>>, Folded(<<<<"first">>>>)),
            Expect(<<<<"q">>, <<"[1]">>, <<"e">>>>, PyStr(<<"w">>))}),
     Block(Line(0, <<"c", ":", " ", ">">>) \o Line(2, <<"keep">>)
               \o Line(2, <<"#", "1", " ", "item">>),
           {Expect(<<<<"c">>>>,
                   Folded(<<<<"keep">>, <<"#", "1", " ", "item">>>>))})}

\* the sequences of at most n distinct blocks
BlockLists(n) ==
    UNION {{l \in [1..k -> Blocks] : \A i, j \in 1..k : l[i] = l[j] => i = j} :
              k \in 0..n}

RECURSIVE TextOf(_)
TextOf(l) == IF Len(l) = 0 THEN <<>> ELSE l[1].text \o TextOf(Tail(l))

\* an entry with an empty key, and the text of test_broken_yaml_returns_empty
EmptyKeyTexts ==
    {Line(0, <<":", " ", "x">>),
     <<":", " ", ":", " ", ":", " ", "[", "[", "[">>}

\* a line without a colon where an entry of the mapping is expected
NoColonTexts == {Line(0, <<"garbage">>)}

\* an entry indented under an entry that has a value, an entry that comes
\* back to an indentation no mapping has, and a document whose first entry
\* is indented
IndentTexts ==
    {KeyVal(0, "k", <<"1">>) \o KeyVal(2, "j", <<"2">>),
     Key(0, "k") \o KeyVal(4, "j", <<"y">>) \o KeyVal(2, "z", <<"w">>),
     KeyVal(2, "k", <<"1">>) \o KeyVal(0, "j", <<"2">>)}

Malformed(kind, texts) ==
    {[kind |-> kind, blocks |-> <<>>,
      text |-> TextOf(before) \o bad \o TextOf(after)] :
        before \in BlockLists(1), bad \in texts, after \in BlockLists(1)}

ParseArgs ==
    {[kind |-> "well-formed", blocks |-> l, text |-> TextOf(l)] :
        l \in BlockLists(MaxBlocks)}
    \cup Malformed("empty key", EmptyKeyTexts)
    \cup Malformed("no colon", NoColonTexts)
    \cup Malformed("indentation", IndentTexts)

InitParse ==
    /\ arg \in ParseArgs
    /\ res = NoResult
    /\ NoFiles

EvalParse ==
    /\ res = NoResult
    /\ res' = parse_yaml(arg.text)
    /\ UNCHANGED <<arg, config_files, state_file, log_file, markers, sentinels,
                   stderr, writes, clock>>

NextParse == EvalParse

SpecParse == InitParse /\ [][NextParse]_vars

\* the value at the path in the parsed document, Absent when there is none
RECURSIVE Lookup(_, _)
Lookup(value, path) ==
    IF Len(path) = 0 THEN value
    ELSE IF value.t = "dict" /\ path[1] \in DOMAIN value.v
    THEN Lookup(value.v[path[1]], Tail(path))
    ELSE IF value.t = "list" /\ path[1] = <<"[1]">> /\ Len(value.v) > 0
    THEN Lookup(value.v[1], Tail(path))
    ELSE Absent

\* C33: parse_yaml lets no exception escape, and a text with an empty key,
\* with a line without a colon where an entry is expected, or with
\* inconsistent indentation gives the empty mapping, not a partial result.
C33_MalformedGivesEmpty ==
    res # NoResult =>
        /\ res # Raise
        /\ arg.kind # "well-formed" => res = EmptyDict

\* the entry a: 1, then a line without a colon: a: 1 is what is returned
C33_Witness ==
    /\ res # NoResult
    /\ arg.kind = "no colon"
    /\ arg.text = KeyVal(0, "a", <<"1">>) \o Line(0, <<"garbage">>)
    /\ res = PyDict(<<"a">> :> PyInt(1))

\* C34: a folded block scalar (key: > followed by deeper-indented lines)
\* parses to exactly those lines joined by single spaces, without a
\* newline, and ends at the first line indented no deeper than the key,
\* which is parsed as the next entry.
C34_FoldedJoinsDeeperLines ==
    res # NoResult /\ arg.kind = "well-formed" =>
        \A i \in 1..Len(arg.blocks) :
            \A e \in arg.blocks[i].expect :
                /\ Lookup(res, e.path) = e.value
                /\ e.value.t = "str" => ~Contains(Lookup(res, e.path).v, "\n")

\* q: with the item "- f: >" and a deeper line: f is the text ">"
C34_Witness ==
    /\ res # NoResult
    /\ arg.kind = "well-formed"
    /\ Len(arg.blocks) = 1
    /\ Lookup(res, <<<<"q">>, <<"[1]">>, <<"f">>>>) = PyStr(<<">">>)
    /\ Lookup(res, <<<<"q">>, <<"[1]">>, <<"e">>>>) = Absent

---------------------------------------------------------------------------
(* The break check within the --check flow (under SpecCheck).              *)

\* the ledger asks for a break under the limits of the sessions section
BreakDue(config) ==
    /\ IsMapping(Section(config, "sessions"))
    /\ BreakRequired(config, NowIn(TzOf(config)))

\* C35 as stated: under soft enforcement and without force, whenever the
\* ledger, once its orphans are closed at now, asks for a break, check
\* returns 1 and writes no snapshot, on the verdict ok and on the verdict
\* wind_down alike.
C35_BreakBlocks ==
    [][(CheckStep /\ ~arg.force)
       => LET config == load_config(config_files)
              verdict == VerdictOf(config)
          IN (/\ config # None
              /\ EnforcementOf(config) = Soft
              /\ Classified(verdict, "ok") \/ Classified(verdict, "wind_down")
              /\ BreakDue(config))
             => (/\ ~res'.raised /\ res'.rc = 1
                 /\ state_file' = state_file)]_vars

\* C35, what holds: under soft enforcement and without force, when the
\* verdict is ok and the ledger, once its orphans are closed at now, asks
\* for a break, check returns 1 and writes no snapshot; on the verdict
\* wind_down check never returns 1 and leaves the ledger as it found it,
\* orphans included.
C35_BreakBlocksOnOk ==
    [][(CheckStep /\ ~arg.force)
       => LET config == load_config(config_files)
              verdict == VerdictOf(config)
          IN (config # None /\ EnforcementOf(config) = Soft)
             => /\ (Classified(verdict, "ok") /\ BreakDue(config))
                   => (/\ ~res'.raised /\ res'.rc = 1
                       /\ state_file' = state_file)
                /\ Classified(verdict, "wind_down")
                   => (/\ res'.raised \/ res'.rc = 2
                       /\ UNCHANGED <<log_file, markers>>)]_vars

\* a soft call on the verdict ok with a ledger that asks for a break: check
\* returned 1, printed the minutes left and wrote no snapshot
C35_Witness ==
    /\ Returned /\ ~res.raised /\ res.rc = 1
    /\ ~arg.force
    /\ state_file = Missing
    /\ stderr # <<>>
    /\ LET config == load_config(config_files)
       IN /\ config # None
          /\ EnforcementOf(config) = Soft
          /\ Classified(VerdictOf(config), "ok")
          /\ BreakDue(config)
---------------------------------------------------------------------------
(* The orphan threshold against the active-session window (under           *)
(* SpecLedger).                                                            *)

\* the record is open with a start_time that parses, not later than now
StartedOpen(r) ==
    /\ Get(r, "end_time", Absent) = None
    /\ IsIso(Get(r, "start_time", None))
    /\ ~Earlier(LocalNaive(clock), Item(r, "start_time").iso)

\* check_break at now takes the record for an active session
CountedActive(r) == ActiveSessionExists(<<r>>, LocalNaive(clock))

\* C38: at any now, every open record with a start_time that parses, not
\* later than now, is closed by cleanup_orphan_sessions(now) or counted by
\* check_break(now) as an active session, the record that is exactly 4
\* hours old included.
C38_ClosedOrActive ==
    [][Calls("cleanup_orphan_sessions") /\ ProgramWritten =>
          \A i \in 1..Len(ListedRecords) :
             StartedOpen(ListedRecords[i])
                => \/ Get(ListedRecords[i], "end_time", Absent)' # None
                   \/ CountedActive(ListedRecords[i])]_vars

\* the pass at 12:00 has left the record open since 08:00 open, and
\* check_break at 12:00 finds no active session in the ledger
C38_Witness ==
    /\ Completed("cleanup_orphan_sessions")
    /\ \E i \in 1..Len(ListedRecords) :
          ListedRecords[i] = Fields(IdA, IsoMinute(480), None, <<>>)
    /\ ~ActiveSessionExists(ListedRecords, LocalNaive(clock))

---------------------------------------------------------------------------
(* A required break clears by waiting (under SpecBreak).                   *)

\* no record of the ledger is open
NoOpenRecord == \A i \in 1..Len(ArgRecords) : ~IsOpen(ArgRecords[i])

\* the closed records that last min_break_minutes or more, by their place
\* in the ledger, and the most recent of them
Lasting ==
    {i \in Qualifying : ~Earlier(EndOf(ArgRecords[i]),
                                 After(StartOf(ArgRecords[i]), ArgMinBreak * 60))}
LastLasting == CHOOSE i \in Lasting : \A j \in Lasting : j <= i

\* now is min_break_minutes or more after the anchor of record i
BreakTaken(i) ==
    ~Earlier(arg.now, After(AnchorOf(ArgRecords[i]), ArgMinBreak * 60))

\* C39: on a ledger without open records, check_break returns ok for every
\* now that is min_break_minutes or more after the interaction anchor of
\* the most recent closed record of min_break_minutes or more, and when it
\* returns ok at some now it returns ok at every later now on the same
\* ledger.
C39_BreakClearsByWaiting ==
    BreakEvaluated /\ NoOpenRecord =>
        /\ \A i \in Lasting : (i = LastLasting /\ BreakTaken(i)) => res.ok
        /\ res.ok => \A later \in BreakNows :
                        ~Earlier(later, arg.now)
                           => check_break(log_file, ArgMinBreak, later,
                                          ArgMaxContinuous).ok

\* 150 minutes of work that ended at 11:35, limits 15 and 150: the check at
\* 11:50 returned ok, and the one at 11:49:30 asks for a break
C39_Witness ==
    /\ BreakEvaluated /\ res.ok
    /\ Scenario8070 /\ arg.now = Minute(710, 0) /\ arg.limits = <<15, 150>>
    /\ ~check_break(log_file, ArgMinBreak, Minute(709, 30), ArgMaxContinuous).ok
---------------------------------------------------------------------------
(* The ledger over the whole set of operations (under SpecGrowth): the     *)
(* calls of SpecLifecycle, check_break and check, one after the other, on  *)
(* a ledger that starts absent, unreadable or empty.                       *)

\* the sample configuration in the soft mode, as it is and for an operator
\* in Tokyo
GrowthConfigs ==
    {<<TextFile(SoftText)>>,
     <<TextFile(Marker \o Key(0, "operator")
                \o KeyVal(2, "timezone", Quoted(<<"Asia/Tokyo">>))
                \o SampleSchedule)>>}

InitGrowth ==
    /\ arg = <<>>
    /\ res = NoResult
    /\ config_files \in GrowthConfigs
    /\ state_file = Missing
    /\ log_file \in {Missing, JsonFile(InvalidJson), Ledger(<<>>)}
    /\ markers = {}
    /\ sentinels = <<>>
    /\ stderr = <<>>
    /\ writes = <<>>
    /\ clock = FirstReading

\* check_break(log_path, 15, now, 150) at the local time of the clock
BreakCheck ==
    /\ Len(arg) < MaxCalls
    /\ res' = check_break(log_file, 15, LocalNaive(clock), 150)
    /\ arg' = Append(arg, Call("check_break", None))
    /\ UNCHANGED <<config_files, state_file, log_file, markers, sentinels,
                   stderr, writes, clock>>

\* guard --check, with or without force, at the time of the clock
GuardCheck ==
    /\ Len(arg) < MaxCalls
    /\ \E session_id \in SessionIds, force \in BOOLEAN :
          ProcessEnds(check(config_files,
                            [state_file |-> state_file, log_file |-> log_file,
                             markers |-> markers],
                            force, None, clock, session_id))
    /\ arg' = Append(arg, Call("check", None))
    /\ UNCHANGED <<config_files, sentinels, clock>>

NextGrowth ==
    \/ StartSession \/ TouchSession \/ EndSession \/ CleanupOrphans
    \/ BreakCheck \/ GuardCheck \/ HoursPass

SpecGrowth == InitGrowth /\ [][NextGrowth]_vars

\* the step is a call of start_session in which uuid4 gave sid
StartSessionCalled(sid) == arg' = Append(arg, Call("start_session", sid))

---------------------------------------------------------------------------
(* Two invocations that write the ledger at the same time (under           *)
(* SpecWriters).  Each of start_session, end_session and                   *)
(* cleanup_orphan_sessions reads the ledger file once (_load_log), changes *)
(* what it read in memory and writes the whole of it back (_save_log);     *)
(* nothing keeps the other invocation from reading or writing in between.  *)
(* arg holds the two invocations and the ledger they start from, res the   *)
(* place of each one, the file each one read and the order of the reads    *)
(* and writes.                                                             *)

Writers == {1, 2}

\* a record as start_session wrote it at minute m of the day, and as
\* end_session closed it at minute e
Started(id, m) == Fields(id, IsoFormat(Minute(m, 0), TRUE, LocalUtcOffset), None, <<>>)
Ended(id, m, e) ==
    Fields(id, IsoFormat(Minute(m, 0), TRUE, LocalUtcOffset),
           IsoFormat(Minute(e, 0), TRUE, LocalUtcOffset),
           Entry("last_activity", IsoFormat(Minute(e, 0), TRUE, LocalUtcOffset)))

\* at 12:00: no record; a session open since 11:38; one open since 07:38,
\* an orphan; both; a closed session and the one open since 11:38
WriterLedgers ==
    {Ledger(<<>>),
     Ledger(<<Started(IdB, 698)>>),
     Ledger(<<Started(IdA, 458)>>),
     Ledger(<<Started(IdA, 458), Started(IdB, 698)>>),
     Ledger(<<Ended(IdA, 540, 620), Started(IdB, 698)>>)}

WriterOps == {"start_session", "end_session", "cleanup_orphan_sessions"}

InitWriters ==
    /\ log_file \in WriterLedgers
    /\ arg \in [ops : [Writers -> WriterOps], ids : [Writers -> {IdA, IdB}],
                log : {log_file}]
    /\ res = [pc |-> [p \in Writers |-> "start"],
              seen |-> [p \in Writers |-> Missing],
              order |-> <<>>]
    /\ markers \in {{}, {<<"warn_80", IdB>>}}
    /\ sentinels = <<>>
    /\ config_files = <<>>
    /\ state_file = Missing
    /\ stderr = <<>>
    /\ writes = <<>>
    /\ clock = NoonReading

\* what the invocation leaves when the ledger it read is file: the ledger
\* it writes, the sentinel files and the markers
Invocation(op, id, file, sents, marks) ==
    IF op = "start_session"
    THEN [log |-> start_session(file, PyStr(<<"/tmp">>), FALSE, id, clock).log,
          sentinels |-> sents, markers |-> marks]
    ELSE IF op = "end_session"
    THEN LET o == end_session(file, sents, marks, id, clock)
         IN [log |-> o.log, sentinels |-> o.sentinels, markers |-> o.markers]
    ELSE LET o == cleanup_orphan_sessions(file, marks, LocalNaive(clock))
         IN [log |-> o.log, sentinels |-> sents, markers |-> o.markers]

\* mutant: the invocation holds a lock from its read to its write, so that
\* it changes the ledger as it is when it writes
WriterSave_Locked(p) ==
    /\ res.pc[p] = "loaded"
    /\ LET o == Invocation(arg.ops[p], arg.ids[p], log_file, sentinels, markers)
       IN /\ log_file' = o.log
          /\ sentinels' = o.sentinels
          /\ markers' = o.markers
    /\ res' = [res EXCEPT !.pc[p] = "done", !.order = Append(@, <<"save", p>>)]
    /\ writes' = Append(writes, "log")
    /\ UNCHANGED <<arg, config_files, state_file, stderr, clock>>

\* data = _load_log(log_path)
WriterLoad(p) ==
    /\ res.pc[p] = "start"
    /\ res' = [res EXCEPT !.pc[p] = "loaded", !.seen[p] = log_file,
                          !.order = Append(@, <<"load", p>>)]
    /\ UNCHANGED <<arg, config_files, state_file, log_file, markers, sentinels,
                   stderr, writes, clock>>

\* the change of what was read, and _save_log(log_path, data)
WriterSave(p) ==
    /\ res.pc[p] = "loaded"
    /\ LET o == Invocation(arg.ops[p], arg.ids[p], res.seen[p], sentinels, markers)
       IN /\ log_file' = o.log
          /\ sentinels' = o.sentinels
          /\ markers' = o.markers
    /\ res' = [res EXCEPT !.pc[p] = "done", !.order = Append(@, <<"save", p>>)]
    /\ writes' = Append(writes, "log")
    /\ UNCHANGED <<arg, config_files, state_file, stderr, clock>>

NextWriters == \E p \in Writers : WriterLoad(p) \/ WriterSave(p)

SpecWriters == InitWriters /\ [][NextWriters]_vars

\* both invocations are over, and both read before either wrote
BothDone == \A p \in Writers : res.pc[p] = "done"
BothLoadedFirst ==
    /\ Len(res.order) = 4
    /\ res.order[1][1] = "load" /\ res.order[2][1] = "load"

\* the invocation that wrote last, and the other one
LastWriter == res.order[4][2]
FirstWriter == res.order[3][2]

\* the ledger the invocation p leaves when it runs alone on the ledger
\* both started from
Alone(p) ==
    Invocation(arg.ops[p], arg.ids[p], arg.log, sentinels, markers).log

\* the records of a ledger file
RecordsOf(file) == Item(_load_log(file), "sessions").v

\* C36: when two invocations of start_session, end_session or
\* cleanup_orphan_sessions both read the ledger before either writes it,
\* the ledger at the end is the one of the invocation that wrote last, as
\* if it had run alone: the record the other one appended is not in it,
\* and a record only the other one closed is open in it.
C36_LastWriterWins ==
    (BothDone /\ BothLoadedFirst) =>
        /\ log_file = Alone(LastWriter)
        /\ Len(RecordsOf(log_file))
              = Len(RecordsOf(arg.log))
                + (IF arg.ops[LastWriter] = "start_session" THEN 1 ELSE 0)
        /\ \A i \in 1..Len(RecordsOf(arg.log)) :
              (/\ Item(RecordsOf(arg.log)[i], "end_time") = None
               /\ Item(RecordsOf(Alone(LastWriter))[i], "end_time") = None)
                 => Item(RecordsOf(log_file)[i], "end_time") = None

\* end_session of the session open since 11:38 and a start_session read
\* the same ledger, end_session wrote first and start_session last: the
\* record that was closed is open again in the ledger, with the new record
\* after it
C36_Witness ==
    /\ BothDone /\ BothLoadedFirst
    /\ arg.log = Ledger(<<Started(IdB, 698)>>)
    /\ arg.ops[FirstWriter] = "end_session" /\ arg.ids[FirstWriter] = IdB
    /\ arg.ops[LastWriter] = "start_session"
    /\ Len(RecordsOf(log_file)) = 2
    /\ RecordsOf(log_file)[1] = Started(IdB, 698)
    /\ Item(RecordsOf(Alone(FirstWriter))[1], "end_time") # None
===========================================================================
